---------------------------- MODULE Spec2Model ----------------------------
(***************************************************************************)
(* A model of the cwb command line tool (chat-workbench-main/cli):         *)
(*   - utils/executor.rs   CommandExecutor (execute, execute_streaming,    *)
(*                         execute_parallel, execute_single)               *)
(*   - utils/prompts.rs    confirm_destructive, select_option              *)
(*   - commands/deploy.rs  destroy_stacks, setup_cdk_environment           *)
(*   - commands/env.rs     delete_environment                              *)
(*   - config.rs, main.rs  ProjectConfig::get_env_config, run,             *)
(*                         find_config_file, get_default_components        *)
(*   - commands/dev.rs, commands/deps.rs                                   *)
(*                         build_components, install_dependencies          *)
(*                                                                         *)
(* Texts (captured output) are sequences of lines.  A child process is the *)
(* environment's: what it does (cannot be launched, exits with a status    *)
(* and some output) is drawn from ChildOutcomes.                           *)
(***************************************************************************)
EXTENDS Integers, Sequences, FiniteSets, TLC

VARIABLES
    executor,    \* the CommandExecutor: [dry_run, verbose]
    pc,          \* where the caller of the executor is: idle | spawning | joining
    commands,    \* the argument of the execute_parallel call, while it is the call in
                 \* progress or the last made
    task,        \* per batch member, its tokio task: [st, result, child]; child is what
                 \* its child process did
    last_done,   \* the member whose task finished last so far (0: none has)
    pb,          \* the progress bar of the batch: [shown, len, pos, msg, finished]
    ret,         \* what the last executor call returned
    call,        \* the request of the last execute or execute_streaming call, and what
                 \* its child process did
    spawned,     \* child processes launched by the call in progress (or last made)
    scheduled,   \* tokio tasks scheduled by the call in progress (or last made)
    builder,     \* a CommandBuilder: [command, args, working_dir, env_vars, st]; st says
                 \* whether there is one and whether it has been run
    cli,         \* the global options of the invocation: [force, dry_run, verbose, env]
    invocation,  \* the handler the invocation runs, and its arguments
    answer,      \* what the terminal gives a confirmation prompt of the invocation
    project,     \* config.yaml, the ProjectConfig document (or missing, or malformed)
    resolved,    \* run's environment: the name it used and what get_env_config gave
    disk,        \* the environment-management configuration file
    disk_at_start, \* ... as the invocation found it
    proc_env,    \* the process-wide environment variables of the CLI
    trace,       \* what the handler did, in order: prompts, set_var, executor calls, log lines
    outcome,     \* what the handler returned
    process,     \* how main ended the process: its exit status and what it wrote to the
                 \* error stream
    fs,          \* the file system find_config_file sees: whether the current directory
                 \* can be determined, and the files of each directory from it to the root
    located,     \* what the last find_config_file call returned
    components,  \* the component registry (name -> ComponentConfig) being populated
    inserted     \* the definitions inserted into it so far, in order

exec_vars ==
    <<executor, pc, commands, task, last_done, pb, ret, call, spawned, scheduled, builder>>

cmd_vars ==
    <<cli, invocation, answer, project, resolved, disk, disk_at_start, proc_env, trace, outcome,
      process>>

cfg_vars == <<fs, located, components, inserted>>

vars == <<exec_vars, cmd_vars, cfg_vars>>

----------------------------------------------------------------------------
(* Bounds and input sets *)

MaxBatch == 3

NoDir == "<inherit>"

Requests ==
    { [cmd |-> "cdk", args |-> <<"list">>, dir |-> "./infrastructure/cdk"],
      [cmd |-> "npm", args |-> <<"run", "build">>, dir |-> NoDir] }

NoReq == [cmd |-> "", args |-> <<>>, dir |-> NoDir]

Batches == UNION { [1..n -> Requests] : n \in 0..MaxBatch }

\* What a child process can do.  code is the exit status; NoCode when the
\* executable could not be launched.
NoCode == -1

SpawnFailed == [kind |-> "spawn_failed", code |-> NoCode, stdout |-> <<>>, stderr |-> <<>>]

\* a line of output that is not valid UTF-8
InvalidUtf8 == "<bytes that are not UTF-8>"

ExitOutcomes ==
    { [kind |-> "exit", code |-> 0, stdout |-> <<"StackA", "  ", " StackB ">>, stderr |-> <<>>],
      [kind |-> "exit", code |-> 0, stdout |-> <<>>, stderr |-> <<"warn">>],
      [kind |-> "exit", code |-> 0, stdout |-> <<InvalidUtf8>>, stderr |-> <<>>],
      [kind |-> "exit", code |-> 1, stdout |-> <<"partial">>, stderr |-> <<"boom">>] }

ChildOutcomes == ExitOutcomes \cup {SpawnFailed}

----------------------------------------------------------------------------
(* Results and errors.  An anyhow error is its chain of messages, the      *)
(* outermost context first; each layer records what the message is built   *)
(* from: the request, the exit code, the stderr text it interpolates.      *)

\* count: the number of batch members a message gives; the executor has no
\* message that gives one
NoCount == NoCode

\* stdout: the captured standard output a message gives; no message does
\* names: the component names a message gives
Layer(msg, req, code, stderr) ==
    [msg |-> msg, req |-> req, code |-> code, stderr |-> stderr, stdout |-> <<>>,
     count |-> NoCount, names |-> {}]

IoError == Layer("io error", NoReq, NoCode, <<>>)

\* anyhow!(text), bail!(text)
Msg(text) == <<Layer(text, NoReq, NoCode, <<>>)>>

\* Result<String>: Ok(text) | Err(error); spawns: children launched on the way
Ok(text, n) == [ok |-> TRUE, text |-> text, error |-> <<>>, spawns |-> n]
Err(chain, n) == [ok |-> FALSE, text |-> <<>>, error |-> chain, spawns |-> n]

DryRunText == <<"DRY RUN">>

\* String::from_utf8(output.stdout): Ok(text), or the Utf8Error
from_utf8(text) ==
    IF \E k \in DOMAIN text : text[k] = InvalidUtf8
    THEN [ok |-> FALSE, error |-> <<Layer("invalid utf-8 sequence", NoReq, NoCode, <<>>)>>]
    ELSE [ok |-> TRUE, error |-> <<>>]

\* CommandExecutor::execute, the child doing o
execute_dry_run_without_output(self, req, o) ==
    IF self.dry_run
    THEN Ok(<<>>, 0)
    ELSE IF o.kind = "spawn_failed"
         THEN Err(<<Layer("Failed to execute command", req, NoCode, <<>>), IoError>>, 0)
         ELSE IF o.code # 0
              THEN Err(<<Layer("Command failed with exit code", NoReq, o.code, <<>>)>>, 1)
              ELSE IF ~from_utf8(o.stdout).ok
                   THEN Err(<<Layer("Command output is not valid UTF-8", NoReq, NoCode, <<>>)>>
                            \o from_utf8(o.stdout).error, 1)
                   ELSE Ok(o.stdout, 1)

execute_ignoring_dry_run(self, req, o) ==
    IF o.kind = "spawn_failed"
    THEN Err(<<Layer("Failed to execute command", req, NoCode, <<>>), IoError>>, 0)
    ELSE IF o.code # 0
         THEN Err(<<Layer("Command failed with exit code", NoReq, o.code, <<>>)>>, 1)
         ELSE IF ~from_utf8(o.stdout).ok
              THEN Err(<<Layer("Command output is not valid UTF-8", NoReq, NoCode, <<>>)>>
                       \o from_utf8(o.stdout).error, 1)
              ELSE Ok(o.stdout, 1)

execute(self, req, o) ==
    IF self.dry_run
    THEN Ok(DryRunText, 0)
    ELSE IF o.kind = "spawn_failed"
         THEN Err(<<Layer("Failed to execute command", req, NoCode, <<>>), IoError>>, 0)
         ELSE IF o.code # 0
              THEN Err(<<Layer("Command failed with exit code", NoReq, o.code, <<>>)>>, 1)
              ELSE IF ~from_utf8(o.stdout).ok
                   THEN Err(<<Layer("Command output is not valid UTF-8", NoReq, NoCode, <<>>)>>
                            \o from_utf8(o.stdout).error, 1)
                   ELSE Ok(o.stdout, 1)

\* CommandExecutor::execute_streaming: Result<()>, no text is captured
execute_streaming_ignoring_status(self, req, o) ==
    IF self.dry_run
    THEN Ok(<<>>, 0)
    ELSE IF o.kind = "spawn_failed"
         THEN Err(<<Layer("Failed to execute command", req, NoCode, <<>>), IoError>>, 0)
         ELSE Ok(<<>>, 1)

execute_streaming(self, req, o) ==
    IF self.dry_run
    THEN Ok(<<>>, 0)
    ELSE IF o.kind = "spawn_failed"
         THEN Err(<<Layer("Failed to execute command", req, NoCode, <<>>), IoError>>, 0)
         ELSE IF o.code # 0
              THEN Err(<<Layer("Command failed with exit code", NoReq, o.code, <<>>)>>, 1)
              ELSE Ok(<<>>, 1)

\* CommandExecutor::execute_single, once the child has been launched and has
\* exited doing o
execute_single_exit(req, o) ==
    IF o.code # 0
    THEN Err(<<Layer("Command failed", req, NoCode, o.stderr)>>, 1)
    ELSE IF ~from_utf8(o.stdout).ok
         THEN Err(from_utf8(o.stdout).error, 1)
         ELSE Ok(o.stdout, 1)

\* CommandExecutor::execute_single, the executable not launched
execute_single_spawn_failed_as_exit(req) ==
    Err(<<Layer("Command failed", req, NoCode, <<>>)>>, 0)

execute_single_spawn_failed(req) ==
    Err(<<Layer("Failed to execute", req, NoCode, <<>>), IoError>>, 0)

----------------------------------------------------------------------------
(* The executor's state *)

\* no CommandBuilder
NoBuilder ==
    [command |-> "", args |-> <<>>, working_dir |-> NoDir, env_vars |-> <<>>, st |-> "none"]

NoResult == [ok |-> FALSE, text |-> <<>>, error |-> <<>>, spawns |-> 0]

NoRet == [fn |-> "none", ok |-> FALSE, text |-> <<>>, outputs |-> <<>>, error |-> <<>>]

NoPb == [shown |-> FALSE, len |-> 0, pos |-> 0, msg |-> "", finished |-> FALSE]

\* a member's task before it runs: no child yet
NoChild == [kind |-> "none", code |-> NoCode, stdout |-> <<>>, stderr |-> <<>>]

\* no execute or execute_streaming call is the last call made
NoCall == [req |-> NoReq, child |-> NoChild]

NewTask == [st |-> "none", result |-> NoResult, child |-> NoChild]

Members == 1..Len(commands)

TaskDone(i) == task[i].st = "done"

\* CommandExecutor::new
ExecInit ==
    /\ executor \in [dry_run : BOOLEAN, verbose : BOOLEAN]
    /\ pc = "idle"
    /\ commands = <<>>
    /\ task = <<>>
    /\ last_done = 0
    /\ pb = NoPb
    /\ ret = NoRet
    /\ call = NoCall
    /\ spawned = 0
    /\ scheduled = 0
    /\ builder = NoBuilder

\* a call of execute
Execute ==
    /\ pc = "idle"
    /\ \E req \in Requests, o \in ChildOutcomes :
          LET r == execute(executor, req, o) IN
          /\ ret' = [fn |-> "execute", ok |-> r.ok, text |-> r.text,
                     outputs |-> <<>>, error |-> r.error]
          /\ call' = [req |-> req, child |-> IF r.spawns = 0 /\ r.ok THEN NoChild ELSE o]
          /\ spawned' = r.spawns
    /\ scheduled' = 0
    /\ commands' = <<>>
    /\ task' = <<>>
    /\ last_done' = 0
    /\ pb' = NoPb
    /\ UNCHANGED <<builder, executor, pc, cmd_vars, cfg_vars>>

\* a call of execute_streaming
ExecuteStreaming ==
    /\ pc = "idle"
    /\ \E req \in Requests, o \in ChildOutcomes :
          LET r == execute_streaming(executor, req, o) IN
          /\ ret' = [fn |-> "execute_streaming", ok |-> r.ok, text |-> r.text,
                     outputs |-> <<>>, error |-> r.error]
          /\ call' = [req |-> req, child |-> IF r.spawns = 0 /\ r.ok THEN NoChild ELSE o]
          /\ spawned' = r.spawns
    /\ scheduled' = 0
    /\ commands' = <<>>
    /\ task' = <<>>
    /\ last_done' = 0
    /\ pb' = NoPb
    /\ UNCHANGED <<builder, executor, pc, cmd_vars, cfg_vars>>

\* execute_parallel, from the call to the first await: the dry-run return,
\* or the progress bar and the start of the handles' construction
ExecuteParallel ==
    /\ pc = "idle"
    /\ \E cmds \in Batches :
          /\ commands' = cmds
          /\ task' = [i \in 1..Len(cmds) |-> NewTask]
          /\ last_done' = 0
          /\ IF executor.dry_run
             THEN /\ ret' = [fn |-> "execute_parallel", ok |-> TRUE, text |-> <<>>,
                             outputs |-> [i \in 1..Len(cmds) |-> DryRunText],
                             error |-> <<>>]
                  /\ pb' = NoPb
                  /\ pc' = "idle"
             ELSE /\ ret' = NoRet
                  /\ pb' = IF ~executor.verbose
                           THEN [shown |-> TRUE, len |-> Len(cmds), pos |-> 0,
                                 msg |-> "Executing commands...", finished |-> FALSE]
                           ELSE NoPb
                  /\ pc' = "spawning"
    /\ call' = NoCall
    /\ spawned' = 0
    /\ scheduled' = 0
    /\ UNCHANGED <<builder, executor, cmd_vars, cfg_vars>>

\* the handles are built in input order: tokio::spawn of the next member
SpawnTask ==
    /\ pc = "spawning"
    /\ scheduled < Len(commands)
    /\ task' = [task EXCEPT ![scheduled + 1].st = "scheduled"]
    /\ scheduled' = scheduled + 1
    /\ UNCHANGED <<builder, executor, pc, commands, last_done, pb, ret, spawned, call, cmd_vars, cfg_vars>>

\* collect() has built every handle: the caller awaits join_all
AwaitJoinAll ==
    /\ pc = "spawning"
    /\ scheduled = Len(commands)
    /\ pc' = "joining"
    /\ UNCHANGED <<builder, executor, commands, task, last_done, pb, ret, spawned, scheduled, call,
                   cmd_vars, cfg_vars>>

\* pb.inc(1); pb.set_message("Completed {i+1}") of member i's task
PbInc_setting_position(i) ==
    IF pb.shown
    THEN [pb EXCEPT !.pos = i, !.msg = "Completed " \o ToString(i)]
    ELSE pb

PbInc(i) ==
    IF pb.shown
    THEN [pb EXCEPT !.pos = @ + 1, !.msg = "Completed " \o ToString(i)]
    ELSE pb

\* member i's task runs execute_single up to command.output(): the child is
\* launched, or it cannot be and the task ends with that error
TaskStart(i) ==
    /\ task[i].st = "scheduled"
    /\ \E launched \in BOOLEAN :
          IF launched
          THEN /\ task' = [task EXCEPT ![i].st = "running"]
               /\ spawned' = spawned + 1
               /\ pb' = pb
               /\ last_done' = last_done
          ELSE /\ task' = [task EXCEPT ![i] =
                             [st |-> "done",
                              result |-> execute_single_spawn_failed(commands[i]),
                              child |-> SpawnFailed]]
               /\ spawned' = spawned
               /\ pb' = PbInc(i)
               /\ last_done' = i
    /\ UNCHANGED <<builder, executor, pc, commands, ret, scheduled, call, cmd_vars, cfg_vars>>

\* member i's child exits: the task's result, and its progress report
TaskChildExit(i) ==
    /\ task[i].st = "running"
    /\ \E o \in ExitOutcomes :
          task' = [task EXCEPT ![i] =
                      [st |-> "done", result |-> execute_single_exit(commands[i], o),
                       child |-> o]]
    /\ pb' = PbInc(i)
    /\ last_done' = i
    /\ UNCHANGED <<builder, executor, pc, commands, ret, spawned, scheduled, call, cmd_vars, cfg_vars>>

\* futures::future::join_all(handles) is ready
join_all_ready_on_first_error ==
    \/ \A i \in Members : TaskDone(i)
    \/ \E i \in Members : TaskDone(i) /\ ~task[i].result.ok

join_all_ready ==
    \A i \in Members : TaskDone(i)

\* ... and yields the tasks' results in the order of the handles
join_all_reversed ==
    [i \in Members |-> task[Len(commands) + 1 - i].result]

join_all ==
    [i \in Members |-> task[i].result]

\* the lowest position of `results` that holds an error, 0 when none does
FirstErr(results) ==
    IF \E i \in 1..Len(results) : ~results[i].ok
    THEN CHOOSE i \in 1..Len(results) :
            /\ ~results[i].ok
            /\ \A j \in 1..(i - 1) : results[j].ok
    ELSE 0

\* the loop over results: the first Err returns, under the context
\* "Command execution failed"; otherwise every output is pushed in turn
collect_outputs(results) ==
    LET k == FirstErr(results) IN
    IF k # 0
    THEN [fn |-> "execute_parallel", ok |-> FALSE, text |-> <<>>, outputs |-> <<>>,
          error |-> <<Layer("Command execution failed", NoReq, NoCode, <<>>)>>
                       \o results[k].error]
    ELSE [fn |-> "execute_parallel", ok |-> TRUE, text |-> <<>>,
          outputs |-> [i \in 1..Len(results) |-> results[i].text], error |-> <<>>]

\* join_all returns; pb.finish_with_message; the results are collected and
\* execute_parallel returns
JoinAll ==
    /\ pc = "joining"
    /\ join_all_ready
    /\ pb' = IF pb.shown
             THEN [pb EXCEPT !.pos = pb.len, !.msg = "All commands completed",
                             !.finished = TRUE]
             ELSE pb
    /\ ret' = collect_outputs(join_all)
    /\ pc' = "idle"
    /\ UNCHANGED <<builder, executor, commands, task, last_done, spawned, scheduled, call, cmd_vars, cfg_vars>>

ExecNext ==
    \/ Execute
    \/ ExecuteStreaming
    \/ ExecuteParallel
    \/ SpawnTask
    \/ AwaitJoinAll
    \/ \E i \in Members : TaskStart(i)
    \/ \E i \in Members : TaskChildExit(i)
    \/ JoinAll

----------------------------------------------------------------------------
(* Command handlers.  A handler runs from its call to its return without   *)
(* another handler in between; h is what it has done so far:               *)
(*   trace   the observable steps, in order                                *)
(*   env     the process-wide environment variables                        *)
(*   cfg     the configuration file on disk                                *)
(*   done    it has returned, with result                                  *)

NoStack == "<none>"
NoProfile == "<none>"
NoName == "<none>"
Unset == "<unset>"

EnvVarNames ==
    {"AWS_REGION", "AWS_ACCOUNT", "AWS_PROFILE", "CDK_DEFAULT_REGION", "CDK_DEFAULT_ACCOUNT"}

\* the environment a process starts with
ShellEnv == [v \in EnvVarNames |-> Unset]

\* EnvConfig, the fields the handlers read
EnvConfigs ==
    { [deployment_name |-> "cwb-dev", account_number |-> "111111111111",
       region |-> "us-east-1", aws_profile |-> NoProfile],
      [deployment_name |-> "cwb-prod", account_number |-> "222222222222",
       region |-> "eu-west-1", aws_profile |-> "prod-admin"] }

\* what the terminal gives Confirm::interact: y, n, Enter (the default), or
\* an error when there is no terminal
Answers == {"y", "n", "enter", "not_a_terminal"}

HOk == [ok |-> TRUE, error |-> <<>>]
HErr(chain) == [ok |-> FALSE, error |-> chain]
NoOutcome == [ok |-> FALSE, error |-> <<Layer("not run", NoReq, NoCode, <<>>)>>]

Start(env, cfg) ==
    [trace |-> <<>>, env |-> env, cfg |-> cfg, done |-> FALSE, result |-> HOk]

Log(h, ev, arg) == [h EXCEPT !.trace = Append(@, [ev |-> ev, arg |-> arg])]

Return(h, res) == [h EXCEPT !.done = TRUE, !.result = res]

\* prompts::confirm_destructive: Result<bool>, the default answer false
confirm_destructive(a) ==
    IF a = "not_a_terminal"
    THEN [ok |-> FALSE, value |-> FALSE, error |-> <<IoError>>]
    ELSE [ok |-> TRUE, value |-> (a = "y"), error |-> <<>>]

\* prompts::select_option over n items: Result<usize>; sel = 0 is no
\* terminal, otherwise the operator picks an item
select_option(n, sel) ==
    IF sel = 0 \/ n = 0
    THEN [ok |-> FALSE, value |-> 0, error |-> <<IoError>>]
    ELSE [ok |-> TRUE, value |-> ((sel - 1) % n) + 1, error |-> <<>>]

\* the prompt of select_option on the terminal, with the items it offers
Select(h, prompt, items) ==
    [h EXCEPT !.trace = Append(@, [ev |-> "select_option", arg |-> prompt, items |-> items])]

\* str::trim on the lines the model uses
Trim(line) ==
    CASE line = "  " -> ""
      [] line = " StackB " -> "StackB"
      [] OTHER -> line

\* output.lines().filter(|l| !l.trim().is_empty()).map(|l| l.trim())
RECURSIVE StackLines(_)
StackLines(text) ==
    IF text = <<>>
    THEN <<>>
    ELSE IF Trim(Head(text)) = ""
         THEN StackLines(Tail(text))
         ELSE <<Trim(Head(text))>> \o StackLines(Tail(text))

\* args.join(" ")
RECURSIVE JoinArgs(_)
JoinArgs(args) ==
    IF args = <<>>
    THEN ""
    ELSE IF Len(args) = 1
         THEN Head(args)
         ELSE Head(args) \o " " \o JoinArgs(Tail(args))

\* format!("{} {}", cmd, args.join(" "))
FullCommand(req) == req.cmd \o " " \o JoinArgs(req.args)

\* deploy.rs: cdk, run in ./infrastructure/cdk
Cdk(args) == [cmd |-> "cdk", args |-> args, dir |-> "./infrastructure/cdk"]

\* an executor call made by a handler: the trace gets the call and, when a
\* child was launched, the child (with the environment variables it
\* inherits) and its exit, which the call awaits; what the child does is the
\* environment's; then the failure of the call
Spawned(h, cmd, status) ==
    [h EXCEPT !.trace = @ \o <<[ev |-> "child", arg |-> cmd, env |-> h.env],
                                [ev |-> "exit", arg |-> cmd, status |-> status]>>]

LogCall(h, fn, req, r, o) ==
    LET c == [h EXCEPT !.trace = Append(@, [ev |-> fn, arg |-> FullCommand(req),
                                            dir |-> req.dir])]
        d == IF r.spawns = 0 THEN c ELSE Spawned(c, req.cmd, o.code)
    IN  IF r.ok THEN d ELSE Log(d, "failed", FullCommand(req))

CallStreaming(h, ex, req, o) ==
    LET r == execute_streaming(ex, req, o) IN
    [step |-> LogCall(h, "execute_streaming", req, r, o), ret |-> r]

CallExecute(h, ex, req, o) ==
    LET r == execute(ex, req, o) IN
    [step |-> LogCall(h, "execute", req, r, o), ret |-> r]

\* deploy.rs setup_cdk_environment: std::env::set_var, in this order
SetVar_scoped(h, name, value) == Log(h, "set_var", name)

SetVar(h, name, value) ==
    Log([h EXCEPT !.env[name] = value], "set_var", name)

setup_cdk_environment(h, env_config) ==
    LET h1 == SetVar(h, "AWS_REGION", env_config.region)
        h2 == SetVar(h1, "AWS_ACCOUNT", env_config.account_number)
        h3 == IF env_config.aws_profile # NoProfile
              THEN SetVar(h2, "AWS_PROFILE", env_config.aws_profile)
              ELSE h2
        h4 == SetVar(h3, "CDK_DEFAULT_REGION", env_config.region)
    IN  SetVar(h4, "CDK_DEFAULT_ACCOUNT", env_config.account_number)

\* deploy.rs destroy_stacks, the confirmation of lines 86-94
destroy_gate_unguarded(h, c, a) ==
    IF c.force
    THEN h
    ELSE LET p == Log(h, "confirm_destructive", "destroy")
             r == confirm_destructive(a)
         IN  IF ~r.ok THEN Return(p, HErr(r.error)) ELSE p

destroy_gate_always_prompts(h, c, a) ==
    LET p == Log(h, "confirm_destructive", "destroy")
        r == confirm_destructive(a)
    IN  IF ~r.ok
        THEN Return(p, HErr(r.error))
        ELSE IF ~r.value
             THEN Return(Log(p, "info", "Destroy operation cancelled"), HOk)
             ELSE p

destroy_gate_denial_is_error(h, c, a) ==
    IF c.force
    THEN h
    ELSE LET p == Log(h, "confirm_destructive", "destroy")
             r == confirm_destructive(a)
         IN  IF ~r.ok
             THEN Return(p, HErr(r.error))
             ELSE IF ~r.value
                  THEN Return(p, HErr(Msg("Destroy operation cancelled")))
                  ELSE p

destroy_gate(h, c, a) ==
    IF c.force
    THEN h
    ELSE LET p == Log(h, "confirm_destructive", "destroy")
             r == confirm_destructive(a)
         IN  IF ~r.ok
             THEN Return(p, HErr(r.error))
             ELSE IF ~r.value
                  THEN Return(Log(p, "info", "Destroy operation cancelled"), HOk)
                  ELSE p

\* deploy.rs get_available_stacks, then the selection of lines 106-113
destroy_selected(h, ex, list_o, sel, run_o) ==
    LET l == CallExecute(h, ex, Cdk(<<"list">>), list_o) IN
    IF ~l.ret.ok
    THEN Return(l.step, HErr(l.ret.error))
    ELSE LET stacks == StackLines(l.ret.text) IN
         IF stacks = <<>>
         THEN Return(l.step, HErr(<<Layer("No CDK stacks found", NoReq, NoCode, <<>>)>>))
         ELSE LET p == Select(l.step, "Select stack to destroy", stacks)
                  s == select_option(Len(stacks), sel)
              IN  IF ~s.ok
                  THEN Return(p, HErr(s.error))
                  ELSE LET r == CallStreaming(Log(p, "info", "Destroying stack: " \o stacks[s.value]),
                                              ex, Cdk(<<"destroy", stacks[s.value], "--force">>),
                                              run_o)
                       IN  IF ~r.ret.ok
                           THEN Return(r.step, HErr(r.ret.error))
                           ELSE Return(Log(r.step, "success", "Destroy operation completed successfully!"), HOk)

\* deploy.rs destroy_stacks
destroy_stacks(h0, c, stack, all, env_config, a, list_o, sel, run_o) ==
    LET ex == [dry_run |-> c.dry_run, verbose |-> c.verbose]
        g == destroy_gate(h0, c, a)
    IN  IF g.done
        THEN g
        ELSE LET h == setup_cdk_environment(g, env_config) IN
             IF all
             THEN LET r == CallStreaming(Log(h, "info", "Destroying all stacks..."),
                                         ex, Cdk(<<"destroy", "--all", "--force">>), run_o)
                  IN  IF ~r.ret.ok
                      THEN Return(r.step, HErr(r.ret.error))
                      ELSE Return(Log(r.step, "success", "Destroy operation completed successfully!"), HOk)
             ELSE IF stack # NoStack
                  THEN LET r == CallStreaming(Log(h, "info", "Destroying stack: " \o stack),
                                              ex, Cdk(<<"destroy", stack, "--force">>), run_o)
                       IN  IF ~r.ret.ok
                           THEN Return(r.step, HErr(r.ret.error))
                           ELSE Return(Log(r.step, "success", "Destroy operation completed successfully!"), HOk)
                  ELSE destroy_selected(h, ex, list_o, sel, run_o)

\* The steps of a handler in sequence: a step of a handler that has returned
\* does nothing (the ? operator returned the error of an earlier step).

\* logger::info, success, warning: a line on the output stream
Say(h, level, msg) == IF h.done THEN h ELSE Log(h, level, msg)

\* Ok(())
Finished(h) == IF h.done THEN h ELSE Return(h, HOk)

\* anyhow::bail!(..)
Bail(h, msg) == IF h.done THEN h ELSE Return(h, HErr(Msg(msg)))

\* executor.execute_streaming(..).await?
Streaming_continuing(h, ex, req, o) ==
    IF h.done
    THEN h
    ELSE CallStreaming(h, ex, req, o).step

Streaming(h, ex, req, o) ==
    IF h.done
    THEN h
    ELSE LET r == CallStreaming(h, ex, req, o) IN
         IF ~r.ret.ok THEN Return(r.step, HErr(r.ret.error)) ELSE r.step

\* executor.execute(..).await?, the output dropped
Executing(h, ex, req, o) ==
    IF h.done
    THEN h
    ELSE LET r == CallExecute(h, ex, req, o) IN
         IF ~r.ret.ok THEN Return(r.step, HErr(r.ret.error)) ELSE r.step

\* CommandExecutor::check_command_exists: true in a dry run, otherwise what
\* `which cmd` says (found, missing, or which itself cannot be launched)
WhichOutcomes == {"found", "missing", "spawn_failed"}

check_command_exists_probing(h, ex, cmd, which_o) ==
    IF which_o = "spawn_failed"
    THEN [step |-> Log(h, "which", cmd), value |-> FALSE]
    ELSE [step |-> Spawned(Log(h, "which", cmd), "which",
                           IF which_o = "found" THEN 0 ELSE 1),
          value |-> (which_o = "found")]

check_command_exists(h, ex, cmd, which_o) ==
    IF ex.dry_run
    THEN [step |-> h, value |-> TRUE]
    ELSE IF which_o = "spawn_failed"
         THEN [step |-> Log(h, "which", cmd), value |-> FALSE]
         ELSE [step |-> Spawned(Log(h, "which", cmd), "which",
                                IF which_o = "found" THEN 0 ELSE 1),
               value |-> (which_o = "found")]

\* .with_context(|| format!(.., name))? on the step that made h
WithContext(h, msg, name) ==
    IF h.done /\ ~h.result.ok
    THEN Return(h, HErr(<<[Layer(msg \o name, NoReq, NoCode, <<>>) EXCEPT !.names = {name}]>>
                        \o h.result.error))
    ELSE h

\* setup_cdk_environment(env_config)?
Setup(h, env_config) == IF h.done THEN h ELSE setup_cdk_environment(h, env_config)

\* CommandExecutor::new(cli.dry_run, cli.verbose)
NewExecutor(c) == [dry_run |-> c.dry_run, verbose |-> c.verbose]

\* deploy.rs deploy_stacks, the interactive selection of lines 61-71
deploy_selected(h, ex, list_o, sel, run_o) ==
    LET l == CallExecute(h, ex, Cdk(<<"list">>), list_o) IN
    IF ~l.ret.ok
    THEN Return(l.step, HErr(l.ret.error))
    ELSE LET stacks == StackLines(l.ret.text) IN
         IF stacks = <<>>
         THEN Bail(l.step, "No CDK stacks found")
         ELSE LET p == Select(l.step, "Select stack to deploy", stacks)
                  s == select_option(Len(stacks), sel)
              IN  IF ~s.ok
                  THEN Return(p, HErr(s.error))
                  ELSE Streaming(Say(p, "info", "Deploying stack: " \o stacks[s.value]),
                                 ex, Cdk(<<"deploy", stacks[s.value],
                                           "--require-approval", "never">>), run_o)

\* deploy.rs deploy_stacks; cdk_dir_exists is Path::exists of the CDK
\* directory
deploy_stacks(h0, c, stack, all, env_config, cdk_dir_exists, list_o, sel, run_o) ==
    LET ex == NewExecutor(c)
        i == Say(h0, "info", "Deploying to environment: " \o env_config.deployment_name)
    IN  IF ~cdk_dir_exists
        THEN Bail(i, "CDK directory not found: ./infrastructure/cdk")
        ELSE LET h == Setup(i, env_config)
                 d == IF all
                      THEN Streaming(Say(h, "info", "Deploying all stacks..."), ex,
                                     Cdk(<<"deploy", "--all", "--require-approval", "never">>),
                                     run_o)
                      ELSE IF stack # NoStack
                           THEN Streaming(Say(h, "info", "Deploying stack: " \o stack), ex,
                                          Cdk(<<"deploy", stack, "--require-approval",
                                                "never">>), run_o)
                           ELSE deploy_selected(h, ex, list_o, sel, run_o)
             IN  Finished(Say(d, "success", "Deployment completed successfully!"))

\* deploy.rs show_deployment_status
show_deployment_status(h0, c, env_config, run_o) ==
    LET i == Say(h0, "info", "Deployment status for environment: "
                                 \o env_config.deployment_name)
    IN  Finished(Streaming(Setup(i, env_config), NewExecutor(c), Cdk(<<"list">>), run_o))

\* deploy.rs show_deployment_diff
show_deployment_diff_setting_up_late(h0, c, stack, env_config, run_o) ==
    LET i == Say(h0, "info", "Showing deployment diff for environment: "
                                 \o env_config.deployment_name)
        args == IF stack # NoStack THEN <<"diff", stack>> ELSE <<"diff">>
    IN  Finished(Setup(Streaming(i, NewExecutor(c), Cdk(args), run_o), env_config))

show_deployment_diff(h0, c, stack, env_config, run_o) ==
    LET i == Say(h0, "info", "Showing deployment diff for environment: "
                                 \o env_config.deployment_name)
        args == IF stack # NoStack THEN <<"diff", stack>> ELSE <<"diff">>
    IN  Finished(Streaming(Setup(i, env_config), NewExecutor(c), Cdk(args), run_o))

\* deploy.rs bootstrap_environment; region is --region, NoName when absent
bootstrap_environment_exporting_region(h0, c, region, env_config, run_o) ==
    LET aws_region == IF region # NoName THEN region ELSE env_config.region
        i == Say(h0, "info", "Bootstrapping CDK in region: " \o aws_region
                                 \o " for account: " \o env_config.account_number)
        r == Streaming(Setup(i, env_config), NewExecutor(c),
                       Cdk(<<"bootstrap", "--region", aws_region>>), run_o)
    IN  Finished(Say(SetVar(r, "AWS_REGION", aws_region), "success",
                     "Bootstrap completed successfully!"))

bootstrap_environment(h0, c, region, env_config, run_o) ==
    LET aws_region == IF region # NoName THEN region ELSE env_config.region
        i == Say(h0, "info", "Bootstrapping CDK in region: " \o aws_region
                                 \o " for account: " \o env_config.account_number)
        r == Streaming(Setup(i, env_config), NewExecutor(c),
                       Cdk(<<"bootstrap", "--region", aws_region>>), run_o)
    IN  Finished(Say(r, "success", "Bootstrap completed successfully!"))

\* deploy.rs rollback_deployment
rollback_deployment(h0, stack, env_config) ==
    LET w == Say(h0, "warning", "Rollback functionality requires custom implementation "
                                    \o "based on your deployment strategy")
    IN  Finished(Say(w, "info", "Would rollback stack '" \o stack \o "' in environment '"
                                    \o env_config.deployment_name \o "'"))

\* deploy.rs clean_deployment_artifacts; cdk_out_exists is Path::exists of
\* ./infrastructure/cdk/cdk.out
clean_deployment_artifacts(h0, c, cdk_out_exists, run_o) ==
    LET i == Say(h0, "info", "Cleaning deployment artifacts...")
        r == IF cdk_out_exists
             THEN Say(Executing(i, NewExecutor(c),
                                [cmd |-> "rm",
                                 args |-> <<"-rf", "./infrastructure/cdk/cdk.out">>,
                                 dir |-> NoDir], run_o),
                      "info", "Removed CDK output directory")
             ELSE i
    IN  Finished(Say(r, "success", "Cleanup completed successfully!"))

----------------------------------------------------------------------------
(* commands/env.rs: the environment-management file.  The file is missing, *)
(* malformed, or holds environments (name -> EnvironmentConfig) and        *)
(* current_environment.                                                    *)

CwbEnvNames == {"dev", "staging", "prod"}

Regions == {"us-east-1"}

NoFile == [file |-> "missing", environments |-> <<>>, current_environment |-> NoName]
BadFile == [file |-> "malformed", environments |-> <<>>, current_environment |-> NoName]

\* the files whose current environment is unset or one of their environments
CwbConfigs ==
    { [file |-> "ok", environments |-> e, current_environment |-> c] :
        <<e, c>> \in { <<e, c>> \in (UNION { [S -> Regions] : S \in SUBSET CwbEnvNames })
                                      \X (CwbEnvNames \cup {NoName}) :
                         c = NoName \/ c \in DOMAIN e } }

\* config::find_config_file, CwbConfig::load: the file as read, or the error
load_config(h) ==
    IF h.cfg.file = "missing"
    THEN Return(h, HErr(Msg("No config.yaml file found")))
    ELSE IF h.cfg.file = "malformed"
         THEN Return(h, HErr(Msg("Failed to parse config file")))
         ELSE h

\* CwbConfig::save: the file is rewritten, or the write fails and the file
\* is as it was
save_config(h, config, save_ok) ==
    IF save_ok
    THEN Log([h EXCEPT !.cfg = config], "save", "config")
    ELSE Return(Log(h, "save", "failed"),
                HErr(Msg("Failed to save configuration") \o <<IoError>>))

\* map.remove(name)
MapRemove(m, name) == [k \in DOMAIN m \ {name} |-> m[k]]

\* env.rs delete_environment, the confirmation of lines 171-178
delete_gate(h, c, name, a) ==
    IF c.force
    THEN h
    ELSE LET p == Log(h, "confirm_destructive", "delete environment")
             r == confirm_destructive(a)
         IN  IF ~r.ok
             THEN Return(p, HErr(r.error))
             ELSE IF ~r.value
                  THEN Return(Log(p, "info", "Environment deletion cancelled"), HOk)
                  ELSE p

\* env.rs delete_environment
delete_environment_of_current(h0, c, name, a, save_ok) ==
    LET l == load_config(h0) IN
    IF l.done
    THEN l
    ELSE IF name \notin DOMAIN l.cfg.environments
         THEN Return(l, HErr(Msg("Environment not found")))
         ELSE LET g == delete_gate(l, c, name, a) IN
              IF g.done
              THEN g
              ELSE LET config == [g.cfg EXCEPT !.environments = MapRemove(@, name)]
                       s == save_config(Log(g, "remove", name), config, save_ok)
                   IN  IF s.done
                       THEN s
                       ELSE Return(Log(s, "success", "Environment deleted successfully"), HOk)

delete_environment(h0, c, name, a, save_ok) ==
    LET l == load_config(h0) IN
    IF l.done
    THEN l
    ELSE IF name \notin DOMAIN l.cfg.environments
         THEN Return(l, HErr(Msg("Environment not found")))
         ELSE IF l.cfg.current_environment = name
              THEN Return(l, HErr(Msg("Cannot delete current environment")))
              ELSE LET g == delete_gate(l, c, name, a) IN
                   IF g.done
                   THEN g
                   ELSE LET config == [g.cfg EXCEPT !.environments = MapRemove(@, name)]
                            s == save_config(Log(g, "remove", name), config, save_ok)
                        IN  IF s.done
                            THEN s
                            ELSE Return(Log(s, "success", "Environment deleted successfully"), HOk)

\* prompts::confirm(message, false): Result<bool>
confirm(a) ==
    IF a = "not_a_terminal"
    THEN [ok |-> FALSE, value |-> FALSE, error |-> <<IoError>>]
    ELSE [ok |-> TRUE, value |-> (a = "y"), error |-> <<>>]

\* what the terminal gives input_string("AWS Region", Some("us-east-1")):
\* a region typed, Enter (the default), or an error when there is no terminal
RegionInputs == {"eu-west-1", "enter", "not_a_terminal"}

\* prompts::input_string with the default us-east-1
input_string(typed) ==
    IF typed = "not_a_terminal"
    THEN [ok |-> FALSE, value |-> "", error |-> <<IoError>>]
    ELSE [ok |-> TRUE, value |-> IF typed = "enter" THEN "us-east-1" ELSE typed,
          error |-> <<>>]

\* HashMap::insert on the environments
MapInsert(m, name, value) == [k \in DOMAIN m \cup {name} |-> IF k = name THEN value ELSE m[k]]

\* env.rs create_environment, lines 71-82: the confirmation of an overwrite
create_gate(h, c, name, a) ==
    IF name \in DOMAIN h.cfg.environments /\ ~c.force
    THEN LET p == Log(h, "confirm", "overwrite")
             r == confirm(a)
         IN  IF ~r.ok
             THEN Return(p, HErr(r.error))
             ELSE IF ~r.value
                  THEN Return(Log(p, "info", "Environment creation cancelled"), HOk)
                  ELSE p
    ELSE h

\* env.rs create_environment, lines 84-105: the new environment, copied from
\* the source or asked of the operator; from is NoName when absent
new_env(h, name, from, typed) ==
    IF from # NoName
    THEN IF from \in DOMAIN h.cfg.environments
         THEN [step |-> Log(h, "info", "Creating environment '" \o name \o "' from '"
                                           \o from \o "'"),
               value |-> h.cfg.environments[from]]
         ELSE [step |-> Return(h, HErr(Msg("Source environment '" \o from \o "' not found"))),
               value |-> ""]
    ELSE LET i == Log(Log(h, "info", "Creating environment '" \o name \o "'"),
                      "input_string", "AWS Region")
             r == input_string(typed)
         IN  IF ~r.ok
             THEN [step |-> Return(i, HErr(r.error)), value |-> ""]
             ELSE [step |-> Log(i, "input_string", "AWS Profile (optional)"),
                   value |-> r.value]

\* env.rs create_environment
create_environment(h0, c, name, from, a, typed, save_ok) ==
    LET l == load_config(h0) IN
    IF l.done
    THEN l
    ELSE LET g == create_gate(l, c, name, a) IN
         IF g.done
         THEN g
         ELSE LET n == new_env(g, name, from, typed) IN
              IF n.step.done
              THEN n.step
              ELSE LET inserted_cfg == [n.step.cfg EXCEPT
                                           !.environments = MapInsert(@, name, n.value)]
                       first == inserted_cfg.current_environment = NoName
                       config == IF first
                                 THEN [inserted_cfg EXCEPT !.current_environment = name]
                                 ELSE inserted_cfg
                       i == IF first
                            THEN Log(n.step, "info", "Set '" \o name
                                                         \o "' as current environment")
                            ELSE n.step
                       s == save_config(i, config, save_ok)
                   IN  IF s.done
                       THEN s
                       ELSE Return(Log(s, "success", "Environment '" \o name
                                                         \o "' created successfully"), HOk)

\* env.rs switch_environment
switch_environment(h0, name, save_ok) ==
    LET l == load_config(h0) IN
    IF l.done
    THEN l
    ELSE IF name \notin DOMAIN l.cfg.environments
         THEN Return(l, HErr(Msg("Environment '" \o name \o "' not found")))
         ELSE LET s == save_config(l, [l.cfg EXCEPT !.current_environment = name], save_ok)
              IN  IF s.done
                  THEN s
                  ELSE IF l.cfg.current_environment # NoName
                       THEN Return(Log(s, "success", "Switched from '"
                                                         \o l.cfg.current_environment
                                                         \o "' to '" \o name \o "'"), HOk)
                       ELSE Return(Log(s, "success", "Switched to environment '"
                                                         \o name \o "'"), HOk)

----------------------------------------------------------------------------
(* config.rs ComponentConfig: the component registry, a                    *)
(* HashMap<String, ComponentConfig> that get_default_components populates  *)
(* with one insert per definition.                                         *)

MaxInserts == 3

NoCommand == "<none>"

Backend ==
    [name |-> "backend", path |-> "./backend", language |-> "python",
     package_manager |-> "uv", test_command |-> "pytest", lint_command |-> "ruff check",
     build_command |-> NoCommand, format_command |-> "ruff format",
     dev_command |-> "python -m app.api.main"]

Frontend ==
    [name |-> "frontend", path |-> "./ui", language |-> "typescript",
     package_manager |-> "npm", test_command |-> "npm test", lint_command |-> "npm run lint",
     build_command |-> "npm run build", format_command |-> "npm run format",
     dev_command |-> "npm run dev"]

Infrastructure ==
    [name |-> "infrastructure", path |-> "./infrastructure/cdk", language |-> "typescript",
     package_manager |-> "npm", test_command |-> "npm test", lint_command |-> "npm run lint",
     build_command |-> "npm run build", format_command |-> NoCommand,
     dev_command |-> NoCommand]

\* a second definition under the name of d (the source holds none: each of
\* its three definitions has a name of its own)
Redefinition(d) == [d EXCEPT !.path = "./services/" \o d.name, !.package_manager = "pnpm"]

\* the definitions an insert of the population can be given
ComponentDefinitions ==
    {Backend, Frontend, Infrastructure, Redefinition(Backend), Redefinition(Frontend)}

\* HashMap::new()
EmptyMap == [n \in {} |-> Backend]

\* HashMap::insert(key, value): the map after it, the value of an earlier
\* entry under the key replaced
insert(m, key, value) ==
    [n \in DOMAIN m \cup {key} |-> IF n = key THEN value ELSE m[n]]

\* ... and what it returns: Some(old) when the key was there, None otherwise;
\* get_default_components drops it
insert_returns(m, key) == IF key \in DOMAIN m THEN "Some" ELSE "None"

\* ComponentConfig::get_default_components
get_default_components ==
    insert(insert(insert(EmptyMap, "backend", Backend), "frontend", Frontend),
           "infrastructure", Infrastructure)

\* components.insert(d.name, d), a step of a population
Insert ==
    /\ Len(inserted) < MaxInserts
    /\ \E d \in ComponentDefinitions :
          /\ components' = insert(components, d.name, d)
          /\ inserted' = Append(inserted, [name |-> d.name, definition |-> d,
                                           returned |-> insert_returns(components, d.name),
                                           ok |-> TRUE])
    /\ UNCHANGED <<fs, located, exec_vars, cmd_vars>>

\* the population is dropped, another starts
NewRegistry ==
    /\ inserted # <<>>
    /\ components' = EmptyMap
    /\ inserted' = <<>>
    /\ UNCHANGED <<fs, located, exec_vars, cmd_vars>>

----------------------------------------------------------------------------
(* commands/dev.rs build_components and commands/deps.rs                   *)
(* install_dependencies, over the registry of get_default_components.      *)

\* the component argument of a dev or deps command
ComponentArgs == {"all", "backend", "frontend", "infrastructure", "docs"}

\* str::split_whitespace on the commands of the registry
SplitWhitespace(command) ==
    CASE command = "pytest" -> <<"pytest">>
      [] command = "ruff check" -> <<"ruff", "check">>
      [] command = "ruff format" -> <<"ruff", "format">>
      [] command = "python -m app.api.main" -> <<"python", "-m", "app.api.main">>
      [] command = "npm test" -> <<"npm", "test">>
      [] command = "npm run lint" -> <<"npm", "run", "lint">>
      [] command = "npm run build" -> <<"npm", "run", "build">>
      [] command = "npm run format" -> <<"npm", "run", "format">>
      [] command = "npm run dev" -> <<"npm", "run", "dev">>
      [] OTHER -> <<>>

\* the orders in which a HashMap with the keys of m can be iterated
IterationOrders(m) ==
    {o \in [1..Cardinality(DOMAIN m) -> DOMAIN m] :
        \A i, j \in DOMAIN o : i # j => o[i] # o[j]}

\* anyhow!("Component '{}' not found", component)
ComponentNotFound(component) ==
    <<[Layer("Component '" \o component \o "' not found", NoReq, NoCode, <<>>)
         EXCEPT !.names = {component}]>>

\* components.get(&component).ok_or_else(..)
get_component(components_map, component) ==
    IF component \in DOMAIN components_map
    THEN [ok |-> TRUE, value |-> components_map[component], error |-> <<>>]
    ELSE [ok |-> FALSE, value |-> Backend, error |-> ComponentNotFound(component)]

\* dev.rs build_components, lines 101-109: the build commands, in the order
\* of the iteration
RECURSIVE build_commands_first_only(_, _)
build_commands_first_only(components_map, order) ==
    IF order = <<>>
    THEN <<>>
    ELSE LET comp_config == components_map[Head(order)]
             parts == SplitWhitespace(comp_config.build_command)
         IN  IF comp_config.build_command # NoCommand /\ parts # <<>>
             THEN <<[name |-> Head(order),
                     req |-> [cmd |-> Head(parts), args |-> Tail(parts),
                              dir |-> comp_config.path]]>>
             ELSE build_commands_first_only(components_map, Tail(order))

RECURSIVE build_commands(_, _)
build_commands(components_map, order) ==
    IF order = <<>>
    THEN <<>>
    ELSE LET comp_config == components_map[Head(order)]
             parts == SplitWhitespace(comp_config.build_command)
         IN  IF comp_config.build_command # NoCommand /\ parts # <<>>
             THEN <<[name |-> Head(order),
                     req |-> [cmd |-> Head(parts), args |-> Tail(parts),
                              dir |-> comp_config.path]]>>
                  \o build_commands(components_map, Tail(order))
             ELSE build_commands(components_map, Tail(order))

\* dev.rs build_components, lines 111-116: one execute_streaming per build
\* command; outs gives what the child of each component does
RECURSIVE build_each(_, _, _, _)
build_each(h, ex, list, outs) ==
    IF list = <<>>
    THEN Return(Log(h, "success", "All components built successfully!"), HOk)
    ELSE LET b == Head(list)
             r == CallStreaming(Log(h, "info", "Building " \o b.name \o "..."),
                                ex, b.req, outs[b.name])
         IN  IF ~r.ret.ok
             THEN Return(r.step,
                         HErr(<<[Layer("Failed to build component: " \o b.name,
                                       NoReq, NoCode, <<>>) EXCEPT !.names = {b.name}]>>
                              \o r.ret.error))
             ELSE build_each(r.step, ex, Tail(list), outs)

\* dev.rs build_components
build_components(h0, c, component, components_map, order, outs) ==
    LET ex == [dry_run |-> c.dry_run, verbose |-> c.verbose] IN
    IF component = "all"
    THEN build_each(Log(h0, "info", "Building all components..."), ex,
                    build_commands(components_map, order), outs)
    ELSE LET g == get_component(components_map, component) IN
         IF ~g.ok
         THEN Return(h0, HErr(g.error))
         ELSE IF g.value.build_command # NoCommand
              THEN LET h == Log(h0, "info", "Building " \o component \o "...")
                       parts == SplitWhitespace(g.value.build_command)
                       r == CallStreaming(h, ex, [cmd |-> Head(parts), args |-> Tail(parts),
                                                  dir |-> g.value.path], outs[component])
                   IN  IF parts = <<>>
                       THEN Return(Log(h, "success", component \o " built successfully!"), HOk)
                       ELSE IF ~r.ret.ok
                            THEN Return(r.step, HErr(r.ret.error))
                            ELSE Return(Log(r.step, "success",
                                            component \o " built successfully!"), HOk)
              ELSE Return(Log(h0, "warning",
                              "No build command configured for component '"
                                  \o component \o "'"), HOk)

\* deps.rs install_dependencies, lines 34-50: the installs of "all", in the
\* order of the source
InstallAll ==
    << [name |-> "backend", info |-> "Installing backend dependencies with uv...",
        req |-> [cmd |-> "uv", args |-> <<"sync">>, dir |-> NoDir]],
       [name |-> "frontend", info |-> "Installing frontend dependencies...",
        req |-> [cmd |-> "npm", args |-> <<"install">>, dir |-> "ui"]],
       [name |-> "infrastructure", info |-> "Installing infrastructure dependencies...",
        req |-> [cmd |-> "npm", args |-> <<"install">>, dir |-> "infrastructure/cdk"]] >>

RECURSIVE install_each(_, _, _, _, _)
install_each(h, ex, components_map, list, outs) ==
    IF list = <<>>
    THEN Return(Log(h, "success", "All dependencies installed successfully!"), HOk)
    ELSE LET b == Head(list) IN
         IF b.name \notin DOMAIN components_map
         THEN install_each(h, ex, components_map, Tail(list), outs)
         ELSE LET r == CallStreaming(Log(h, "info", b.info),
                                     ex, b.req, outs[b.name])
              IN  IF ~r.ret.ok
                  THEN Return(r.step, HErr(r.ret.error))
                  ELSE install_each(r.step, ex, components_map, Tail(list), outs)

\* deps.rs install_dependencies, lines 61-77: the command of a package manager
InstallCommand(package_manager) ==
    CASE package_manager = "uv" -> <<"uv", "sync">>
      [] package_manager = "npm" -> <<"npm", "install">>
      [] package_manager = "yarn" -> <<"yarn", "install">>
      [] package_manager = "pnpm" -> <<"pnpm", "install">>
      [] OTHER -> <<>>

\* deps.rs install_dependencies
install_dependencies(h0, c, component, components_map, outs) ==
    LET ex == [dry_run |-> c.dry_run, verbose |-> c.verbose] IN
    IF component = "all"
    THEN install_each(Log(h0, "info", "Installing dependencies for all components..."),
                      ex, components_map, InstallAll, outs)
    ELSE LET g == get_component(components_map, component) IN
         IF ~g.ok
         THEN Return(h0, HErr(g.error))
         ELSE LET h == Log(h0, "info", "Installing dependencies for " \o component \o "...")
                  parts == InstallCommand(g.value.package_manager)
                  r == CallStreaming(h, ex, [cmd |-> Head(parts), args |-> Tail(parts),
                                             dir |-> g.value.path], outs[component])
                  done == component \o " dependencies installed successfully!"
              IN  IF parts = <<>>
                  THEN Return(Log(Log(h, "warning", "Unknown package manager: "
                                                        \o g.value.package_manager),
                                  "success", done), HOk)
                  ELSE IF ~r.ret.ok
                       THEN Return(r.step, HErr(r.ret.error))
                       ELSE Return(Log(r.step, "success", done), HOk)

\* a component's request: its command line split, run in its path
ComponentRequest(comp_config, parts) ==
    [cmd |-> Head(parts), args |-> Tail(parts), dir |-> comp_config.path]

\* the warning of a single component that has no command for the action
no_command_is_error(h, action, component) ==
    Bail(h, "No " \o action \o " command configured for component '" \o component \o "'")

no_command(h, action, component) ==
    Say(h, "warning",
        "No " \o action \o " command configured for component '" \o component \o "'")

\* dev.rs start_dev_server, lines 47-58 and 61-70: one server of "all"
start_one_ignoring_failure(h, ex, components_map, name, o) ==
    IF name \notin DOMAIN components_map \/ components_map[name].dev_command = NoCommand
    THEN h
    ELSE LET parts == SplitWhitespace(components_map[name].dev_command) IN
         IF parts = <<>>
         THEN h
         ELSE IF h.done
              THEN h
              ELSE CallStreaming(Log(h, "info", "Starting " \o name
                                                    \o " development server..."),
                                 ex, ComponentRequest(components_map[name], parts), o).step

start_one(h, ex, components_map, name, o) ==
    IF name \notin DOMAIN components_map \/ components_map[name].dev_command = NoCommand
    THEN h
    ELSE LET parts == SplitWhitespace(components_map[name].dev_command) IN
         IF parts = <<>>
         THEN h
         ELSE Streaming(Say(h, "info", "Starting " \o name \o " development server..."),
                        ex, ComponentRequest(components_map[name], parts), o)

\* dev.rs start_dev_server
start_dev_server(h0, c, component, components_map, outs) ==
    LET ex == NewExecutor(c) IN
    IF component = "all"
    THEN LET i == Say(h0, "info", "Starting all development servers...")
             b == start_one(i, ex, components_map, "backend", outs["backend"])
         IN  Finished(start_one(b, ex, components_map, "frontend", outs["frontend"]))
    ELSE LET g == get_component(components_map, component) IN
         IF ~g.ok
         THEN Return(h0, HErr(g.error))
         ELSE IF g.value.dev_command # NoCommand
              THEN LET i == Say(h0, "info", "Starting " \o component
                                                \o " development server...")
                       parts == SplitWhitespace(g.value.dev_command)
                   IN  IF parts = <<>>
                       THEN Finished(i)
                       ELSE Finished(Streaming(i, ex, ComponentRequest(g.value, parts),
                                               outs[component]))
              ELSE Finished(no_command(h0, "dev", component))

\* str::contains on the commands of the registry
Contains(command, word) ==
    CASE word = "pytest" -> command = "pytest"
      [] word = "ruff" -> command \in {"ruff check", "ruff format"}
      [] OTHER -> FALSE

\* dev.rs run_component_test; test_filter is NoName when absent
run_component_test(h, ex, comp_config, base_test_cmd, coverage, test_filter, o) ==
    LET node == comp_config.package_manager \in {"npm", "yarn", "pnpm"}
        python == comp_config.package_manager \in {"uv", "pip"}
        cov == IF coverage /\ python /\ Contains(base_test_cmd, "pytest")
               THEN <<"--cov">>
               ELSE <<>>
        fil == IF test_filter = NoName
               THEN <<>>
               ELSE IF node
                    THEN <<"--testNamePattern", test_filter>>
                    ELSE IF python /\ Contains(base_test_cmd, "pytest")
                         THEN <<"-k", test_filter>>
                         ELSE <<>>
        cmd_parts == SplitWhitespace(base_test_cmd) \o cov \o fil
    IN  Streaming(h, ex, ComponentRequest(comp_config, cmd_parts), o)

\* dev.rs run_tests, lines 149-155
RECURSIVE test_each(_, _, _, _, _, _, _)
test_each(h, ex, components_map, order, coverage, test_filter, outs) ==
    IF h.done \/ order = <<>>
    THEN h
    ELSE LET name == Head(order)
             comp_config == components_map[name]
             t == IF comp_config.test_command # NoCommand
                  THEN WithContext(
                           run_component_test(Say(h, "info", "Testing " \o name \o "..."),
                                              ex, comp_config, comp_config.test_command,
                                              coverage, test_filter, outs[name]),
                           "Tests failed for component: ", name)
                  ELSE h
         IN  test_each(t, ex, components_map, Tail(order), coverage, test_filter, outs)

\* dev.rs run_tests
run_tests(h0, c, component, coverage, test_filter, components_map, order, outs) ==
    LET ex == NewExecutor(c) IN
    IF component = "all"
    THEN Finished(Say(test_each(Say(h0, "info", "Running tests for all components..."),
                                ex, components_map, order, coverage, test_filter, outs),
                      "success", "All tests passed!"))
    ELSE LET g == get_component(components_map, component) IN
         IF ~g.ok
         THEN Return(h0, HErr(g.error))
         ELSE IF g.value.test_command # NoCommand
              THEN Finished(Say(run_component_test(
                                    Say(h0, "info", "Running tests for " \o component \o "..."),
                                    ex, g.value, g.value.test_command, coverage,
                                    test_filter, outs[component]),
                                "success", component \o " tests passed!"))
              ELSE Finished(no_command(h0, "test", component))

\* dev.rs run_component_lint
run_component_lint(h, ex, comp_config, base_lint_cmd, fix, o) ==
    LET fixes == IF fix /\ (Contains(base_lint_cmd, "ruff") \/ Contains(base_lint_cmd, "eslint"))
                 THEN <<"--fix">>
                 ELSE <<>>
    IN  Streaming(h, ex, ComponentRequest(comp_config, SplitWhitespace(base_lint_cmd) \o fixes),
                  o)

\* dev.rs run_linting, lines 235-241
RECURSIVE lint_each(_, _, _, _, _, _)
lint_each(h, ex, components_map, order, fix, outs) ==
    IF h.done \/ order = <<>>
    THEN h
    ELSE LET name == Head(order)
             comp_config == components_map[name]
             t == IF comp_config.lint_command # NoCommand
                  THEN WithContext(
                           run_component_lint(Say(h, "info", "Linting " \o name \o "..."),
                                              ex, comp_config, comp_config.lint_command,
                                              fix, outs[name]),
                           "Linting failed for component: ", name)
                  ELSE h
         IN  lint_each(t, ex, components_map, Tail(order), fix, outs)

\* dev.rs run_linting
run_linting(h0, c, component, fix, components_map, order, outs) ==
    LET ex == NewExecutor(c) IN
    IF component = "all"
    THEN Finished(Say(lint_each(Say(h0, "info", "Running linting for all components..."),
                                ex, components_map, order, fix, outs),
                      "success", "All linting checks passed!"))
    ELSE LET g == get_component(components_map, component) IN
         IF ~g.ok
         THEN Return(h0, HErr(g.error))
         ELSE IF g.value.lint_command # NoCommand
              THEN Finished(Say(run_component_lint(
                                    Say(h0, "info", "Linting " \o component \o "..."),
                                    ex, g.value, g.value.lint_command, fix, outs[component]),
                                "success", component \o " linting passed!"))
              ELSE Finished(no_command(h0, "lint", component))

\* dev.rs format_code, lines 294-304
RECURSIVE format_each(_, _, _, _, _)
format_each(h, ex, components_map, order, outs) ==
    IF h.done \/ order = <<>>
    THEN h
    ELSE LET name == Head(order)
             comp_config == components_map[name]
             parts == SplitWhitespace(comp_config.format_command)
             i == Say(h, "info", "Formatting " \o name \o "...")
             t == IF comp_config.format_command = NoCommand
                  THEN h
                  ELSE IF parts = <<>>
                       THEN i
                       ELSE WithContext(Streaming(i, ex, ComponentRequest(comp_config, parts),
                                                  outs[name]),
                                        "Formatting failed for component: ", name)
         IN  format_each(t, ex, components_map, Tail(order), outs)

\* dev.rs format_code
format_code(h0, c, component, components_map, order, outs) ==
    LET ex == NewExecutor(c) IN
    IF component = "all"
    THEN Finished(Say(format_each(Say(h0, "info", "Formatting all components..."),
                                  ex, components_map, order, outs),
                      "success", "All components formatted!"))
    ELSE LET g == get_component(components_map, component) IN
         IF ~g.ok
         THEN Return(h0, HErr(g.error))
         ELSE IF g.value.format_command # NoCommand
              THEN LET i == Say(h0, "info", "Formatting " \o component \o "...")
                       parts == SplitWhitespace(g.value.format_command)
                       r == IF parts = <<>>
                            THEN i
                            ELSE Streaming(i, ex, ComponentRequest(g.value, parts),
                                           outs[component])
                   IN  Finished(Say(r, "success", component \o " formatted!"))
              ELSE Finished(no_command(h0, "format", component))

\* npx tsc --noEmit in the component's path
Tsc(comp_config) == [cmd |-> "npx", args |-> <<"tsc", "--noEmit">>, dir |-> comp_config.path]

\* dev.rs run_typecheck, lines 335-343
RECURSIVE typecheck_each(_, _, _, _, _)
typecheck_each(h, ex, components_map, order, outs) ==
    IF h.done \/ order = <<>>
    THEN h
    ELSE LET name == Head(order)
             comp_config == components_map[name]
             t == IF comp_config.language = "typescript"
                  THEN WithContext(Streaming(Say(h, "info", "Type checking " \o name \o "..."),
                                             ex, Tsc(comp_config), outs[name]),
                                   "Type checking failed for component: ", name)
                  ELSE h
         IN  typecheck_each(t, ex, components_map, Tail(order), outs)

\* dev.rs run_typecheck
run_typecheck(h0, c, component, components_map, order, outs) ==
    LET ex == NewExecutor(c) IN
    IF component = "all"
    THEN Finished(Say(typecheck_each(Say(h0, "info",
                                         "Running type checking for all components..."),
                                     ex, components_map, order, outs),
                      "success", "All type checks passed!"))
    ELSE LET g == get_component(components_map, component) IN
         IF ~g.ok
         THEN Return(h0, HErr(g.error))
         ELSE IF g.value.language = "typescript"
              THEN Finished(Say(Streaming(Say(h0, "info", "Type checking " \o component \o "..."),
                                          ex, Tsc(g.value), outs[component]),
                                "success", component \o " type checking passed!"))
              ELSE Finished(Say(h0, "warning",
                                "Type checking not supported for " \o component \o " ("
                                    \o g.value.language \o " language)"))

\* dev.rs run_pre_commit
run_pre_commit(h0, c, which_o, run_o) ==
    LET ex == NewExecutor(c)
        e == check_command_exists(Say(h0, "info", "Running pre-commit hooks..."), ex,
                                  "pre-commit", which_o)
    IN  IF ~e.value
        THEN Finished(Say(e.step, "warning",
                          "pre-commit not found. Install with: pip install pre-commit"))
        ELSE Finished(Say(Streaming(e.step, ex,
                                    [cmd |-> "pre-commit", args |-> <<"run", "--all-files">>,
                                     dir |-> NoDir], run_o),
                          "success", "Pre-commit hooks passed!"))

\* a package manager run from the project root or in a directory
Pm(cmd, args, dir) == [cmd |-> cmd, args |-> args, dir |-> dir]

\* deps.rs update_dependencies, lines 121-138: the command of a package
\* manager (uv has two, the second after the first)
UpdateCommand_defaulting_to_npm(package_manager) ==
    CASE package_manager = "uv" -> <<"uv", "lock", "--upgrade">>
      [] package_manager = "yarn" -> <<"yarn", "upgrade">>
      [] package_manager = "pnpm" -> <<"pnpm", "update">>
      [] OTHER -> <<"npm", "update">>

UpdateCommand(package_manager) ==
    CASE package_manager = "uv" -> <<"uv", "lock", "--upgrade">>
      [] package_manager = "npm" -> <<"npm", "update">>
      [] package_manager = "yarn" -> <<"yarn", "upgrade">>
      [] package_manager = "pnpm" -> <<"pnpm", "update">>
      [] OTHER -> <<>>

\* deps.rs update_dependencies; sync_o is what the child of uv sync does
update_dependencies(h0, c, component, components_map, outs, sync_o) ==
    LET ex == NewExecutor(c) IN
    IF component = "all"
    THEN LET i == Say(h0, "info", "Updating dependencies for all components...")
             b == IF "backend" \in DOMAIN components_map
                  THEN Streaming(Streaming(Say(i, "info", "Updating backend dependencies..."),
                                           ex, Pm("uv", <<"lock", "--upgrade">>, NoDir),
                                           outs["backend"]),
                                 ex, Pm("uv", <<"sync">>, NoDir), sync_o)
                  ELSE i
             f == IF "frontend" \in DOMAIN components_map
                  THEN Streaming(Say(b, "info", "Updating frontend dependencies..."),
                                 ex, Pm("npm", <<"update">>, "ui"), outs["frontend"])
                  ELSE b
             n == IF "infrastructure" \in DOMAIN components_map
                  THEN Streaming(Say(f, "info", "Updating infrastructure dependencies..."),
                                 ex, Pm("npm", <<"update">>, "infrastructure/cdk"),
                                 outs["infrastructure"])
                  ELSE f
         IN  Finished(Say(n, "success", "All dependencies updated successfully!"))
    ELSE LET g == get_component(components_map, component) IN
         IF ~g.ok
         THEN Return(h0, HErr(g.error))
         ELSE LET i == Say(h0, "info", "Updating dependencies for " \o component \o "...")
                  parts == UpdateCommand(g.value.package_manager)
                  u == IF parts = <<>>
                       THEN Say(i, "warning", "Unknown package manager: "
                                                  \o g.value.package_manager)
                       ELSE Streaming(i, ex, ComponentRequest(g.value, parts),
                                      outs[component])
                  r == IF g.value.package_manager = "uv"
                       THEN Streaming(u, ex, Pm("uv", <<"sync">>, g.value.path), sync_o)
                       ELSE u
              IN  Finished(Say(r, "success",
                               component \o " dependencies updated successfully!"))

\* executor.execute_streaming(..).await.ok(): the result dropped
StreamingIgnored_propagating(h, ex, req, o) ==
    IF h.done
    THEN h
    ELSE LET r == CallStreaming(h, ex, req, o) IN
         IF ~r.ret.ok THEN Return(r.step, HErr(r.ret.error)) ELSE r.step

StreamingIgnored(h, ex, req, o) ==
    IF h.done
    THEN h
    ELSE CallStreaming(h, ex, req, o).step

\* deps.rs show_outdated_packages, line 158: if let Err(_) = .. { info }
StreamingOrInfo(h, ex, req, o, msg) ==
    IF h.done
    THEN h
    ELSE LET r == CallStreaming(h, ex, req, o) IN
         IF ~r.ret.ok THEN Say(r.step, "info", msg) ELSE r.step

\* deps.rs show_outdated_packages, lines 182-199: the command of a package
\* manager
OutdatedCommand(package_manager) ==
    CASE package_manager = "uv" -> <<"uv", "lock", "--dry-run">>
      [] package_manager = "npm" -> <<"npm", "outdated">>
      [] package_manager = "yarn" -> <<"yarn", "outdated">>
      [] package_manager = "pnpm" -> <<"pnpm", "outdated">>
      [] OTHER -> <<>>

\* deps.rs show_outdated_packages
show_outdated_packages(h0, c, component, components_map, outs) ==
    LET ex == NewExecutor(c) IN
    IF component = "all"
    THEN LET i == Say(h0, "info", "Checking outdated packages for all components...")
             b == IF "backend" \in DOMAIN components_map
                  THEN StreamingOrInfo(Say(i, "info", "Backend (uv) outdated packages:"),
                                       ex, Pm("uv", <<"lock", "--dry-run">>, NoDir),
                                       outs["backend"],
                                       "No outdated information available for uv packages")
                  ELSE i
             f == IF "frontend" \in DOMAIN components_map
                  THEN StreamingIgnored(Say(b, "info", "Frontend (npm) outdated packages:"),
                                        ex, Pm("npm", <<"outdated">>, "ui"), outs["frontend"])
                  ELSE b
             n == IF "infrastructure" \in DOMAIN components_map
                  THEN StreamingIgnored(Say(f, "info",
                                            "Infrastructure (npm) outdated packages:"),
                                        ex, Pm("npm", <<"outdated">>, "infrastructure/cdk"),
                                        outs["infrastructure"])
                  ELSE f
         IN  Finished(n)
    ELSE LET g == get_component(components_map, component) IN
         IF ~g.ok
         THEN Return(h0, HErr(g.error))
         ELSE LET i == Say(h0, "info", "Checking outdated packages for " \o component
                                           \o "...")
                  parts == OutdatedCommand(g.value.package_manager)
                  u == IF g.value.package_manager = "uv"
                       THEN Say(i, "info", "Checking uv lock for changes...")
                       ELSE i
              IN  IF parts = <<>>
                  THEN Finished(Say(u, "warning", "Unknown package manager: "
                                                      \o g.value.package_manager))
                  ELSE Finished(StreamingIgnored(u, ex, ComponentRequest(g.value, parts),
                                                 outs[component]))

\* deps.rs sync_all_dependencies
sync_all_dependencies(h0, c, components_map, outs) ==
    LET ex == NewExecutor(c)
        i == Say(h0, "info", "Syncing all dependencies across the project...")
        b == IF "backend" \in DOMAIN components_map
             THEN Streaming(Say(i, "info", "Syncing backend dependencies with uv..."),
                            ex, Pm("uv", <<"sync">>, NoDir), outs["backend"])
             ELSE i
        f == IF "frontend" \in DOMAIN components_map
             THEN Streaming(Say(b, "info", "Syncing frontend dependencies..."),
                            ex, Pm("npm", <<"ci">>, "ui"), outs["frontend"])
             ELSE b
        n == IF "infrastructure" \in DOMAIN components_map
             THEN Streaming(Say(f, "info", "Syncing infrastructure dependencies..."),
                            ex, Pm("npm", <<"ci">>, "infrastructure/cdk"),
                            outs["infrastructure"])
             ELSE f
    IN  Finished(Say(n, "success", "All dependencies synced successfully!"))

----------------------------------------------------------------------------
(* config.rs find_config_file.  The directories from the current one to    *)
(* the root are fs.chain, the current directory first; each is the set of  *)
(* the names of the files in it.                                           *)

MaxDepth == 3

FileNames == {"config.yaml", "config.yaml.example", "README.md"}

Chains == UNION { [1..n -> SUBSET FileNames] : n \in 1..MaxDepth }

FileSystems == [cwd_ok : BOOLEAN, chain : Chains]

NoFs == [cwd_ok |-> TRUE, chain |-> <<{}>>]

\* the file systems run is started in
ResolveFileSystems ==
    [cwd_ok : BOOLEAN,
     chain : {<<{}>>, <<{"config.yaml"}>>, <<{"README.md"}, {"config.yaml.example"}>>}]

\* Result<PathBuf>: the path is the directory (its place in the chain) and
\* the file name
Found(k, name) == [called |-> TRUE, ok |-> TRUE, dir |-> k, file |-> name, error |-> <<>>]
NotFound(chain) == [called |-> TRUE, ok |-> FALSE, dir |-> 0, file |-> "", error |-> chain]
NotLocated == [called |-> FALSE, ok |-> FALSE, dir |-> 0, file |-> "", error |-> <<>>]

\* the loop of find_config_file, dir being the k-th directory of the chain
RECURSIVE find_loop_primary_anywhere(_, _)
find_loop_primary_anywhere(chain, k) ==
    IF \E j \in k..Len(chain) : "config.yaml" \in chain[j]
    THEN Found(CHOOSE j \in k..Len(chain) :
                   /\ "config.yaml" \in chain[j]
                   /\ \A i \in k..(j - 1) : "config.yaml" \notin chain[i],
               "config.yaml")
    ELSE IF "config.yaml.example" \in chain[k]
         THEN Found(k, "config.yaml.example")
         ELSE IF k < Len(chain)
              THEN find_loop_primary_anywhere(chain, k + 1)
              ELSE NotFound(Msg("No config.yaml file found. Make sure you're in the project directory."))

RECURSIVE find_loop(_, _)
find_loop(chain, k) ==
    IF "config.yaml" \in chain[k]
    THEN Found(k, "config.yaml")
    ELSE IF "config.yaml.example" \in chain[k]
         THEN Found(k, "config.yaml.example")
         ELSE IF k < Len(chain)
              THEN find_loop(chain, k + 1)
              ELSE NotFound(Msg("No config.yaml file found. Make sure you're in the project directory."))

\* find_config_file
find_config_file(f) ==
    IF ~f.cwd_ok
    THEN NotFound(<<Layer("Failed to get current directory", NoReq, NoCode, <<>>), IoError>>)
    ELSE find_loop(f.chain, 1)

\* a call of find_config_file
FindConfigFile ==
    /\ located' = find_config_file(fs)
    /\ UNCHANGED <<fs, components, inserted, exec_vars, cmd_vars>>

\* no file system is looked at, no registry is populated
CfgIdle ==
    /\ fs = NoFs
    /\ located = NotLocated
    /\ components = EmptyMap
    /\ inserted = <<>>

----------------------------------------------------------------------------
(* An invocation of the CLI is one process running one handler: the flags, *)
(* the handler's arguments and what the terminal and the children do are   *)
(* the environment's.  The process starts with the shell's environment     *)
(* variables; the file on disk is what the invocation before left.         *)

\* config.rs ProjectConfig; EnvConfig is the fields the handlers read
EnvNames == {"dev", "staging", "prod", "qa"}

NoBlock ==
    [deployment_name |-> "<none>", account_number |-> "<none>", region |-> "<none>",
     aws_profile |-> NoProfile]

ProjectConfigs ==
    [file : {"ok"}, env : EnvNames, dev : EnvConfigs,
     staging : EnvConfigs \cup {NoBlock}, prod : EnvConfigs \cup {NoBlock}]

NoProject ==
    [file |-> "missing", env |-> "dev", dev |-> NoBlock, staging |-> NoBlock, prod |-> NoBlock]

BadProject ==
    [file |-> "malformed", env |-> "dev", dev |-> NoBlock, staging |-> NoBlock, prod |-> NoBlock]

\* ProjectConfig::get_env_config: Result<&EnvConfig>.  options is the
\* environment names the error message lists after "Valid options:"
RCfg(config) == [ok |-> TRUE, config |-> config, error |-> <<>>, options |-> <<>>]
RErr(text, options) ==
    [ok |-> FALSE, config |-> NoBlock, error |-> Msg(text), options |-> options]

get_env_config_falling_back_to_dev(self, env) ==
    CASE env = "dev" -> RCfg(self.dev)
      [] env = "staging" ->
            IF self.staging # NoBlock THEN RCfg(self.staging) ELSE RCfg(self.dev)
      [] env = "prod" ->
            IF self.prod # NoBlock THEN RCfg(self.prod) ELSE RCfg(self.dev)
      [] OTHER -> RCfg(self.dev)

get_env_config(self, env) ==
    CASE env = "dev" -> RCfg(self.dev)
      [] env = "staging" ->
            IF self.staging # NoBlock
            THEN RCfg(self.staging)
            ELSE RErr("Staging environment not configured", <<>>)
      [] env = "prod" ->
            IF self.prod # NoBlock
            THEN RCfg(self.prod)
            ELSE RErr("Production environment not configured", <<>>)
      [] OTHER ->
            RErr("Invalid environment '" \o env \o "'. Valid options: dev, staging, prod",
                 <<"dev", "staging", "prod">>)

\* ProjectConfig::get_available_environments
get_available_environments_listing_all(self) == <<"dev", "staging", "prod">>

get_available_environments(self) ==
    <<"dev">> \o (IF self.staging # NoBlock THEN <<"staging">> ELSE <<>>)
             \o (IF self.prod # NoBlock THEN <<"prod">> ELSE <<>>)

\* ProjectConfig::get_default_env
get_default_env_dev(self) == "dev"

get_default_env(self) == self.env

\* main.rs run, lines 33-35: cli.env, or the document's default
run_env(c, self) ==
    IF c.env # NoName THEN c.env ELSE get_default_env(self)

\* doctor.rs check_required_tools, lines 66-75
Tools == <<"git", "docker", "node", "npm", "python3", "uv", "aws", "cdk">>

\* what `which` says of each tool: one of them is the odd one
ToolOutcomes ==
    {[t \in {Tools[k] : k \in DOMAIN Tools} |-> IF t = odd THEN w ELSE "found"] :
        odd \in {"git", "cdk"}, w \in WhichOutcomes}

\* the output of aws sts get-caller-identity for an account
Identity(account) == <<"{\"Account\": \"" \o account \o "\"}">>

AwsOutcomes ==
    ChildOutcomes \cup
        {[kind |-> "exit", code |-> 0, stdout |-> Identity("111111111111"), stderr |-> <<>>]}

\* serde_json::from_str(&output), then .get("Account").as_str(): NoName when
\* the output is not such a document
Account(text) ==
    IF \E e \in EnvConfigs : text = Identity(e.account_number)
    THEN (CHOOSE e \in EnvConfigs : text = Identity(e.account_number)).account_number
    ELSE NoName

\* a doctor check: d.h is the handler so far, d.issues the issues pushed
Issue(d, text) == [d EXCEPT !.issues = Append(@, text)]

\* doctor.rs check_config_file
check_config_file(d, self) ==
    LET envs == get_available_environments(self)
        default_env == get_default_env(self)
        a == IF envs = <<>>
             THEN Issue(d, "No environments configured in config.yaml")
             ELSE d
    IN  IF \E k \in DOMAIN envs : envs[k] = default_env
        THEN a
        ELSE Issue(a, "Default environment '" \o default_env
                          \o "' is not available in configuration")

\* doctor.rs check_required_tools
RECURSIVE check_required_tools(_, _, _, _)
check_required_tools(d, ex, tools, which_of) ==
    IF tools = <<>>
    THEN d
    ELSE LET e == check_command_exists(d.h, ex, Head(tools), which_of[Head(tools)])
             n == [d EXCEPT !.h = e.step]
         IN  check_required_tools(IF e.value
                                  THEN n
                                  ELSE Issue(n, Head(tools) \o " not found in PATH"),
                                  ex, Tail(tools), which_of)

\* doctor.rs check_project_structure; missing is the expected directories
\* that do not exist
check_project_structure(d, missing) ==
    IF missing = <<>>
    THEN d
    ELSE Issue(d, "Some expected directories are missing: " \o JoinArgs(missing))

\* doctor.rs check_aws_config
check_aws_config(d, ex, env_config, aws_o) ==
    LET aws_profile == IF env_config.aws_profile # NoProfile
                       THEN env_config.aws_profile
                       ELSE "default"
        args == IF aws_profile # "default"
                THEN <<"sts", "get-caller-identity", "--profile", aws_profile>>
                ELSE <<"sts", "get-caller-identity">>
        r == CallExecute(d.h, ex, [cmd |-> "aws", args |-> args, dir |-> NoDir], aws_o)
        n == [d EXCEPT !.h = r.step]
    IN  IF r.ret.ok
        THEN IF Account(r.ret.text) \notin {NoName, env_config.account_number}
             THEN Issue(n, "AWS account mismatch: credentials show '" \o Account(r.ret.text)
                               \o "' but config expects '" \o env_config.account_number
                               \o "'")
             ELSE n
        ELSE IF aws_profile = "default"
             THEN Issue(n, "AWS credentials not configured. Run 'aws configure' or set "
                               \o "environment variables.")
             ELSE Issue(n, "AWS profile '" \o aws_profile \o "' not configured. Run "
                               \o "'aws configure --profile " \o aws_profile \o "'.")

\* doctor.rs handle_doctor, lines 36-38: the issues, one line each
RECURSIVE PrintLines(_, _)
PrintLines(h, lines) ==
    IF lines = <<>>
    THEN h
    ELSE PrintLines(Say(h, "println", Head(lines)), Tail(lines))

\* doctor.rs handle_doctor
handle_doctor(h0, c, self, env_config, which_of, missing, aws_o) ==
    LET ex == NewExecutor(c)
        d0 == [h |-> Say(h0, "info", "Running cwb doctor..."), issues |-> <<>>]
        d1 == check_config_file(d0, self)
        d2 == check_required_tools(d1, ex, Tools, which_of)
        d3 == check_project_structure(d2, missing)
        d4 == check_aws_config(d3, ex, env_config, aws_o)
    IN  IF d4.issues = <<>>
        THEN Finished(Say(d4.h, "success", "All checks passed! Your setup looks good."))
        ELSE Finished(PrintLines(Say(d4.h, "warning", "Found issue(s):"), d4.issues))

Flags ==
    [force : BOOLEAN, dry_run : BOOLEAN, verbose : BOOLEAN, env : {NoName}, config : {NoName}]

Clis == [force : BOOLEAN, dry_run : BOOLEAN, verbose : BOOLEAN,
         env : EnvNames \cup {NoName}, config : {NoName, "custom.yaml"}]

NoCli ==
    [force |-> FALSE, dry_run |-> FALSE, verbose |-> FALSE, env |-> NoName, config |-> NoName]

NoInvocation ==
    [handler |-> "none", command |-> "none", stack |-> NoStack, all |-> FALSE,
     name |-> NoName, component |-> NoName, env_config |-> NoBlock, exits_zero |-> {}]

Unresolved ==
    [env |-> NoName, ok |-> FALSE, config |-> NoBlock, error |-> <<>>, options |-> <<>>]

\* the components whose child, when launched, exits with status 0
ExitsZero(outs) == {n \in DOMAIN outs : outs[n].kind = "exit" /\ outs[n].code = 0}

\* the commands main.rs run dispatches
Commands == {"version", "config", "doctor", "deploy", "dev", "deps", "other"}

\* main.rs main: the process has not ended
Running == [status |-> NoCode, stderr |-> <<>>]

CmdInit ==
    /\ cli = NoCli
    /\ invocation = NoInvocation
    /\ answer = "enter"
    /\ project = NoProject
    /\ resolved = Unresolved
    /\ disk \in CwbConfigs \cup {NoFile, BadFile}
    /\ disk_at_start = disk
    /\ proc_env = ShellEnv
    /\ trace = <<>>
    /\ outcome = NoOutcome
    /\ process = Running

\* main.rs main, lines 16-21: what run returned decides the exit status; an
\* error is written to the error stream by logger::error, as its outermost
\* message
main_exit_always_zero(result) ==
    IF result.ok
    THEN [status |-> 0, stderr |-> <<>>]
    ELSE [status |-> 0, stderr |-> <<"ERROR Command failed: " \o result.error[1].msg>>]

main_exit(result) ==
    IF result.ok
    THEN [status |-> 0, stderr |-> <<>>]
    ELSE [status |-> 1, stderr |-> <<"ERROR Command failed: " \o result.error[1].msg>>]

Finish(h) ==
    /\ trace' = h.trace
    /\ proc_env' = h.env
    /\ disk' = h.cfg
    /\ outcome' = h.result
    /\ process' = main_exit(h.result)

\* cwb deploy destroy [stack] [--all]
DestroyStacks ==
    /\ invocation = NoInvocation
    /\ \E c \in Flags, stack \in {NoStack, "StackA"}, all \in BOOLEAN, ec \in EnvConfigs,
       a \in Answers, list_o \in ChildOutcomes, sel \in 0..2, run_o \in ChildOutcomes :
        /\ cli' = c
        /\ invocation' = [NoInvocation EXCEPT !.handler = "destroy_stacks",
                                              !.command = "deploy", !.stack = stack,
                                              !.all = all, !.env_config = ec]
        /\ answer' = a
        /\ Finish(destroy_stacks(Start(ShellEnv, disk), c, stack, all, ec, a, list_o, sel, run_o))
    /\ UNCHANGED <<project, resolved, disk_at_start, exec_vars, cfg_vars>>

\* env delete <name>
DeleteEnvironment ==
    /\ invocation = NoInvocation
    /\ \E c \in Flags, name \in CwbEnvNames, a \in Answers, save_ok \in BOOLEAN :
        /\ cli' = c
        /\ invocation' = [NoInvocation EXCEPT !.handler = "delete_environment",
                                              !.name = name]
        /\ answer' = a
        /\ Finish(delete_environment(Start(ShellEnv, disk), c, name, a, save_ok))
    /\ UNCHANGED <<project, resolved, disk_at_start, exec_vars, cfg_vars>>

\* env create <name> [--from source]
CreateEnvironment ==
    /\ invocation = NoInvocation
    /\ \E c \in Flags, name \in CwbEnvNames, from \in CwbEnvNames \cup {NoName},
          a \in Answers, typed \in RegionInputs, save_ok \in BOOLEAN :
        /\ cli' = c
        /\ invocation' = [NoInvocation EXCEPT !.handler = "create_environment",
                                              !.name = name, !.stack = from]
        /\ answer' = a
        /\ Finish(create_environment(Start(ShellEnv, disk), c, name, from, a, typed, save_ok))
    /\ UNCHANGED <<project, resolved, disk_at_start, exec_vars, cfg_vars>>

\* env switch <name>
SwitchEnvironment ==
    /\ invocation = NoInvocation
    /\ \E c \in Flags, name \in CwbEnvNames, save_ok \in BOOLEAN :
        /\ cli' = c
        /\ invocation' = [NoInvocation EXCEPT !.handler = "switch_environment",
                                              !.name = name]
        /\ Finish(switch_environment(Start(ShellEnv, disk), name, save_ok))
    /\ UNCHANGED <<answer, project, resolved, disk_at_start, exec_vars, cfg_vars>>

\* cwb dev build <component>: main.rs run gives the handler the registry of
\* get_default_components
BuildComponents ==
    /\ invocation = NoInvocation
    /\ \E c \in Flags, component \in ComponentArgs,
          order \in IterationOrders(get_default_components),
          outs \in [DOMAIN get_default_components -> ChildOutcomes] :
        /\ cli' = c
        /\ invocation' = [NoInvocation EXCEPT !.handler = "build_components",
                                              !.command = "dev", !.component = component,
                                              !.exits_zero = ExitsZero(outs)]
        /\ Finish(build_components(Start(ShellEnv, disk), c, component,
                                   get_default_components, order, outs))
    /\ UNCHANGED <<answer, project, resolved, disk_at_start, exec_vars, cfg_vars>>

\* cwb deps install <component>
InstallDependencies ==
    /\ invocation = NoInvocation
    /\ \E c \in Flags, component \in ComponentArgs,
          outs \in [DOMAIN get_default_components -> ChildOutcomes] :
        /\ cli' = c
        /\ invocation' = [NoInvocation EXCEPT !.handler = "install_dependencies",
                                              !.command = "deps", !.component = component]
        /\ Finish(install_dependencies(Start(ShellEnv, disk), c, component,
                                       get_default_components, outs))
    /\ UNCHANGED <<answer, project, resolved, disk_at_start, exec_vars, cfg_vars>>

\* the children of a handler whose outcome the handler's later steps depend
\* on: one per component of the registry
ComponentOutcomes == [DOMAIN get_default_components -> ChildOutcomes]

\* cwb deploy deploy [stack] [--all]
DeployStacks ==
    /\ invocation = NoInvocation
    /\ \E c \in Flags, stack \in {NoStack, "StackA"}, all \in BOOLEAN, ec \in EnvConfigs,
          cdk_dir_exists \in BOOLEAN, list_o \in ChildOutcomes, sel \in 0..2,
          run_o \in ChildOutcomes :
        /\ cli' = c
        /\ invocation' = [NoInvocation EXCEPT !.handler = "deploy_stacks",
                                              !.command = "deploy", !.stack = stack,
                                              !.all = all, !.env_config = ec]
        /\ Finish(deploy_stacks(Start(ShellEnv, disk), c, stack, all, ec, cdk_dir_exists,
                                list_o, sel, run_o))
    /\ UNCHANGED <<answer, project, resolved, disk_at_start, exec_vars, cfg_vars>>

\* cwb deploy status
ShowDeploymentStatus ==
    /\ invocation = NoInvocation
    /\ \E c \in Flags, ec \in EnvConfigs, run_o \in ChildOutcomes :
        /\ cli' = c
        /\ invocation' = [NoInvocation EXCEPT !.handler = "show_deployment_status",
                                              !.command = "deploy", !.env_config = ec]
        /\ Finish(show_deployment_status(Start(ShellEnv, disk), c, ec, run_o))
    /\ UNCHANGED <<answer, project, resolved, disk_at_start, exec_vars, cfg_vars>>

\* cwb deploy diff [stack]
ShowDeploymentDiff ==
    /\ invocation = NoInvocation
    /\ \E c \in Flags, stack \in {NoStack, "StackA"}, ec \in EnvConfigs,
          run_o \in ChildOutcomes :
        /\ cli' = c
        /\ invocation' = [NoInvocation EXCEPT !.handler = "show_deployment_diff",
                                              !.command = "deploy", !.stack = stack,
                                              !.env_config = ec]
        /\ Finish(show_deployment_diff(Start(ShellEnv, disk), c, stack, ec, run_o))
    /\ UNCHANGED <<answer, project, resolved, disk_at_start, exec_vars, cfg_vars>>

\* cwb deploy bootstrap [--region r]
BootstrapEnvironment ==
    /\ invocation = NoInvocation
    /\ \E c \in Flags, region \in {NoName, "ap-south-1"}, ec \in EnvConfigs,
          run_o \in ChildOutcomes :
        /\ cli' = c
        /\ invocation' = [NoInvocation EXCEPT !.handler = "bootstrap_environment",
                                              !.command = "deploy", !.name = region,
                                              !.env_config = ec]
        /\ Finish(bootstrap_environment(Start(ShellEnv, disk), c, region, ec, run_o))
    /\ UNCHANGED <<answer, project, resolved, disk_at_start, exec_vars, cfg_vars>>

\* cwb deploy rollback <stack>
RollbackDeployment ==
    /\ invocation = NoInvocation
    /\ \E c \in Flags, stack \in {"StackA", "StackB"}, ec \in EnvConfigs :
        /\ cli' = c
        /\ invocation' = [NoInvocation EXCEPT !.handler = "rollback_deployment",
                                              !.command = "deploy", !.stack = stack,
                                              !.env_config = ec]
        /\ Finish(rollback_deployment(Start(ShellEnv, disk), stack, ec))
    /\ UNCHANGED <<answer, project, resolved, disk_at_start, exec_vars, cfg_vars>>

\* cwb deploy clean
CleanDeploymentArtifacts ==
    /\ invocation = NoInvocation
    /\ \E c \in Flags, cdk_out_exists \in BOOLEAN, run_o \in ChildOutcomes :
        /\ cli' = c
        /\ invocation' = [NoInvocation EXCEPT !.handler = "clean_deployment_artifacts",
                                              !.command = "deploy",
                                              !.all = cdk_out_exists]
        /\ Finish(clean_deployment_artifacts(Start(ShellEnv, disk), c, cdk_out_exists, run_o))
    /\ UNCHANGED <<answer, project, resolved, disk_at_start, exec_vars, cfg_vars>>

\* cwb dev start <component>
StartDevServer ==
    /\ invocation = NoInvocation
    /\ \E c \in Flags, component \in ComponentArgs, outs \in ComponentOutcomes :
        /\ cli' = c
        /\ invocation' = [NoInvocation EXCEPT !.handler = "start_dev_server",
                                              !.command = "dev", !.component = component]
        /\ Finish(start_dev_server(Start(ShellEnv, disk), c, component,
                                   get_default_components, outs))
    /\ UNCHANGED <<answer, project, resolved, disk_at_start, exec_vars, cfg_vars>>

\* cwb dev test <component> [--coverage] [--test filter]
RunTests ==
    /\ invocation = NoInvocation
    /\ \E c \in Flags, component \in ComponentArgs, coverage \in BOOLEAN,
          test_filter \in {NoName, "smoke"},
          order \in IterationOrders(get_default_components), outs \in ComponentOutcomes :
        /\ cli' = c
        /\ invocation' = [NoInvocation EXCEPT !.handler = "run_tests",
                                              !.command = "dev", !.component = component,
                                              !.exits_zero = ExitsZero(outs)]
        /\ Finish(run_tests(Start(ShellEnv, disk), c, component, coverage, test_filter,
                            get_default_components, order, outs))
    /\ UNCHANGED <<answer, project, resolved, disk_at_start, exec_vars, cfg_vars>>

\* cwb dev lint <component> [--fix]
RunLinting ==
    /\ invocation = NoInvocation
    /\ \E c \in Flags, component \in ComponentArgs, fix \in BOOLEAN,
          order \in IterationOrders(get_default_components), outs \in ComponentOutcomes :
        /\ cli' = c
        /\ invocation' = [NoInvocation EXCEPT !.handler = "run_linting",
                                              !.command = "dev", !.component = component,
                                              !.exits_zero = ExitsZero(outs)]
        /\ Finish(run_linting(Start(ShellEnv, disk), c, component, fix,
                              get_default_components, order, outs))
    /\ UNCHANGED <<answer, project, resolved, disk_at_start, exec_vars, cfg_vars>>

\* cwb dev format <component>
FormatCode ==
    /\ invocation = NoInvocation
    /\ \E c \in Flags, component \in ComponentArgs,
          order \in IterationOrders(get_default_components), outs \in ComponentOutcomes :
        /\ cli' = c
        /\ invocation' = [NoInvocation EXCEPT !.handler = "format_code",
                                              !.command = "dev", !.component = component,
                                              !.exits_zero = ExitsZero(outs)]
        /\ Finish(format_code(Start(ShellEnv, disk), c, component,
                              get_default_components, order, outs))
    /\ UNCHANGED <<answer, project, resolved, disk_at_start, exec_vars, cfg_vars>>

\* cwb dev typecheck <component>
RunTypecheck ==
    /\ invocation = NoInvocation
    /\ \E c \in Flags, component \in ComponentArgs,
          order \in IterationOrders(get_default_components), outs \in ComponentOutcomes :
        /\ cli' = c
        /\ invocation' = [NoInvocation EXCEPT !.handler = "run_typecheck",
                                              !.command = "dev", !.component = component]
        /\ Finish(run_typecheck(Start(ShellEnv, disk), c, component,
                                get_default_components, order, outs))
    /\ UNCHANGED <<answer, project, resolved, disk_at_start, exec_vars, cfg_vars>>

\* cwb dev pre-commit
RunPreCommit ==
    /\ invocation = NoInvocation
    /\ \E c \in Flags, which_o \in WhichOutcomes, run_o \in ChildOutcomes :
        /\ cli' = c
        /\ invocation' = [NoInvocation EXCEPT !.handler = "run_pre_commit",
                                              !.command = "dev"]
        /\ Finish(run_pre_commit(Start(ShellEnv, disk), c, which_o, run_o))
    /\ UNCHANGED <<answer, project, resolved, disk_at_start, exec_vars, cfg_vars>>

\* cwb deps update <component>
UpdateDependencies ==
    /\ invocation = NoInvocation
    /\ \E c \in Flags, component \in ComponentArgs, outs \in ComponentOutcomes,
          sync_o \in ChildOutcomes :
        /\ cli' = c
        /\ invocation' = [NoInvocation EXCEPT !.handler = "update_dependencies",
                                              !.command = "deps", !.component = component]
        /\ Finish(update_dependencies(Start(ShellEnv, disk), c, component,
                                      get_default_components, outs, sync_o))
    /\ UNCHANGED <<answer, project, resolved, disk_at_start, exec_vars, cfg_vars>>

\* cwb deps outdated <component>
ShowOutdatedPackages ==
    /\ invocation = NoInvocation
    /\ \E c \in Flags, component \in ComponentArgs, outs \in ComponentOutcomes :
        /\ cli' = c
        /\ invocation' = [NoInvocation EXCEPT !.handler = "show_outdated_packages",
                                              !.command = "deps", !.component = component]
        /\ Finish(show_outdated_packages(Start(ShellEnv, disk), c, component,
                                         get_default_components, outs))
    /\ UNCHANGED <<answer, project, resolved, disk_at_start, exec_vars, cfg_vars>>

\* cwb deps sync
SyncAllDependencies ==
    /\ invocation = NoInvocation
    /\ \E c \in Flags, outs \in ComponentOutcomes :
        /\ cli' = c
        /\ invocation' = [NoInvocation EXCEPT !.handler = "sync_all_dependencies",
                                              !.command = "deps", !.component = "all"]
        /\ Finish(sync_all_dependencies(Start(ShellEnv, disk), c, get_default_components,
                                        outs))
    /\ UNCHANGED <<answer, project, resolved, disk_at_start, exec_vars, cfg_vars>>

\* the documents doctor is given: their default environment is any name
DoctorProjects == {p \in ProjectConfigs : p.staging = NoBlock /\ p.prod = NoBlock}

\* cwb doctor
HandleDoctor ==
    /\ invocation = NoInvocation
    /\ \E c \in Flags, self \in DoctorProjects, ec \in EnvConfigs,
          which_of \in ToolOutcomes, missing \in {<<>>, <<"Frontend directory">>},
          aws_o \in AwsOutcomes :
        /\ cli' = c
        /\ invocation' = [NoInvocation EXCEPT !.handler = "handle_doctor",
                                              !.command = "doctor", !.env_config = ec]
        /\ Finish(handle_doctor(Start(ShellEnv, disk), c, self, ec, which_of, missing,
                                aws_o))
    /\ UNCHANGED <<answer, project, resolved, disk_at_start, exec_vars, cfg_vars>>

\* main.rs run, lines 24-38: the configuration file is --config or the one
\* find_config_file locates; the document is loaded and the environment
\* resolved; an error of any of them returns before the command is dispatched
run_resolve_with_defaults(c, f, self) ==
    LET env == run_env(c, self)
        r == get_env_config(self, env)
    IN  IF self.file # "ok"
        THEN [env |-> "dev", ok |-> TRUE, config |-> self.dev, error |-> <<>>,
              options |-> <<>>]
        ELSE [env |-> env, ok |-> r.ok, config |-> r.config, error |-> r.error,
              options |-> r.options]

run_resolve(c, f, self) ==
    IF c.config = NoName /\ ~find_config_file(f).ok
    THEN [Unresolved EXCEPT !.error = find_config_file(f).error]
    ELSE IF self.file = "missing"
         THEN [Unresolved EXCEPT !.error = Msg("Configuration file not found")]
         ELSE IF self.file = "malformed"
              THEN [Unresolved EXCEPT !.error =
                        <<Layer("Failed to parse config file", NoReq, NoCode, <<>>),
                          Layer("yaml error", NoReq, NoCode, <<>>)>>]
              ELSE LET env == run_env(c, self)
                       r == get_env_config(self, env)
                   IN  [env |-> env, ok |-> r.ok, config |-> r.config, error |-> r.error,
                        options |-> r.options]

\* cwb <command>: main.rs run; what the dispatched handler returns is the
\* handler's (version and the commands not implemented return Ok)
Run ==
    /\ invocation = NoInvocation
    /\ \E c \in Clis, command \in Commands, handler_ok \in BOOLEAN :
          LET r == run_resolve(c, fs, project)
              result == IF ~r.ok
                        THEN HErr(r.error)
                        ELSE IF handler_ok \/ command \in {"version", "other"}
                             THEN HOk
                             ELSE HErr(Msg("handler failed"))
          IN
          /\ cli' = c
          /\ invocation' = [NoInvocation EXCEPT !.handler = "run", !.command = command]
          /\ resolved' = r
          /\ trace' = IF r.ok THEN <<[ev |-> "dispatch", arg |-> command]>> ELSE <<>>
          /\ outcome' = result
          /\ process' = main_exit(result)
    /\ UNCHANGED <<answer, project, disk, disk_at_start, proc_env, exec_vars, cfg_vars>>

\* the process exits; the next invocation is a new process, which finds the
\* file as this one left it
Exit ==
    /\ invocation # NoInvocation
    /\ cli' = NoCli
    /\ invocation' = NoInvocation
    /\ answer' = "enter"
    /\ resolved' = Unresolved
    /\ disk_at_start' = disk
    /\ proc_env' = ShellEnv
    /\ trace' = <<>>
    /\ outcome' = NoOutcome
    /\ process' = Running
    /\ UNCHANGED <<project, disk, exec_vars, cfg_vars>>

CmdNext ==
    \/ DestroyStacks
    \/ DeleteEnvironment
    \/ BuildComponents
    \/ InstallDependencies
    \/ Exit

----------------------------------------------------------------------------
(* Specifications *)

\* the executor and its callers; no command handler runs
InitExecutor ==
    /\ CfgIdle
    /\ ExecInit
    /\ cli = NoCli
    /\ invocation = NoInvocation
    /\ answer = "enter"
    /\ project = NoProject
    /\ resolved = Unresolved
    /\ disk = NoFile
    /\ disk_at_start = NoFile
    /\ proc_env = ShellEnv
    /\ trace = <<>>
    /\ outcome = NoOutcome
    /\ process = Running

SpecExecutor == InitExecutor /\ [][ExecNext]_vars

\* the command handlers, one invocation after the other
InitCommands ==
    /\ CfgIdle
    /\ CmdInit
    /\ executor = [dry_run |-> FALSE, verbose |-> FALSE]
    /\ pc = "idle"
    /\ commands = <<>>
    /\ task = <<>>
    /\ last_done = 0
    /\ pb = NoPb
    /\ ret = NoRet
    /\ call = NoCall
    /\ spawned = 0
    /\ scheduled = 0
    /\ builder = NoBuilder

SpecCommands == InitCommands /\ [][CmdNext]_vars

\* the environment commands of env.rs, one invocation after the other on the
\* file the one before left
EnvNext ==
    \/ CreateEnvironment
    \/ SwitchEnvironment
    \/ DeleteEnvironment
    \/ Exit

SpecEnv == InitCommands /\ [][EnvNext]_vars

\* deps.rs handle_deps is handed the component map: main.rs hands it
\* get_default_components, whose package managers are uv and npm; the other
\* maps are a registry whose frontend names another package manager (bun is
\* what init.rs detects for a frontend, yarn one the handlers know)
Registries ==
    {get_default_components,
     insert(get_default_components, "frontend", [Frontend EXCEPT !.package_manager = "bun"]),
     insert(get_default_components, "frontend", [Frontend EXCEPT !.package_manager = "yarn"])}

\* deps.rs handle_deps, lines 7-24: the executor is made from the flags and
\* the subcommand is dispatched to its handler, over the map it was handed
HandleDeps ==
    /\ invocation = NoInvocation
    /\ \E c \in Flags, component \in ComponentArgs, outs \in ComponentOutcomes,
          sync_o \in ChildOutcomes,
          deps_cmd \in {"install_dependencies", "update_dependencies",
                        "show_outdated_packages", "sync_all_dependencies"} :
        /\ cli' = c
        /\ invocation' = [NoInvocation EXCEPT
                              !.handler = deps_cmd, !.command = "deps",
                              !.component = IF deps_cmd = "sync_all_dependencies"
                                            THEN "all" ELSE component]
        /\ Finish(CASE deps_cmd = "install_dependencies" ->
                         install_dependencies(Start(ShellEnv, disk), c, component,
                                              components, outs)
                    [] deps_cmd = "update_dependencies" ->
                         update_dependencies(Start(ShellEnv, disk), c, component,
                                             components, outs, sync_o)
                    [] deps_cmd = "show_outdated_packages" ->
                         show_outdated_packages(Start(ShellEnv, disk), c, component,
                                                components, outs)
                    [] OTHER ->
                         sync_all_dependencies(Start(ShellEnv, disk), c, components, outs))
    /\ UNCHANGED <<answer, project, resolved, disk_at_start, exec_vars, cfg_vars>>

InitDeps ==
    /\ fs = NoFs
    /\ located = NotLocated
    /\ components \in Registries
    /\ inserted = <<>>
    /\ CmdInit
    /\ disk = NoFile
    /\ executor = [dry_run |-> FALSE, verbose |-> FALSE]
    /\ pc = "idle"
    /\ commands = <<>>
    /\ task = <<>>
    /\ last_done = 0
    /\ pb = NoPb
    /\ ret = NoRet
    /\ call = NoCall
    /\ spawned = 0
    /\ scheduled = 0
    /\ builder = NoBuilder

DepsNext ==
    \/ HandleDeps
    \/ Exit

SpecDeps == InitDeps /\ [][DepsNext]_vars

\* executor.rs CommandBuilder.  A builder is made, filled by its chained
\* methods and consumed by execute or execute_streaming, which hand the
\* executor what they pass it; the call and its child are the trace.
MaxArgs == 2

MaxEnvVars == 2

BuilderArgs == {"list", "--all"}

BuilderEnvVars ==
    { <<"AWS_REGION", "us-east-1">>, <<"AWS_REGION", "eu-west-1">>, <<"AWS_PROFILE", "dev">> }

\* CommandBuilder::new(command)
BuilderNew ==
    /\ builder.st = "none"
    /\ \E command \in {"cdk", "npm"} :
          builder' = [command |-> command, args |-> <<>>, working_dir |-> NoDir,
                      env_vars |-> <<>>, st |-> "built"]
    /\ UNCHANGED <<executor, pc, commands, task, last_done, pb, ret, call, spawned, scheduled,
                   cmd_vars, cfg_vars>>

\* .arg(arg): self.args.push(arg)
BuilderArg ==
    /\ builder.st = "built"
    /\ Len(builder.args) < MaxArgs
    /\ \E a \in BuilderArgs : builder' = [builder EXCEPT !.args = Append(@, a)]
    /\ UNCHANGED <<executor, pc, commands, task, last_done, pb, ret, call, spawned, scheduled,
                   cmd_vars, cfg_vars>>

\* .args(args): self.args.extend(args)
BuilderArgsExtend ==
    /\ builder.st = "built"
    /\ \E n \in 0..(MaxArgs - Len(builder.args)) :
          \E list \in [1..n -> BuilderArgs] : builder' = [builder EXCEPT !.args = @ \o list]
    /\ UNCHANGED <<executor, pc, commands, task, last_done, pb, ret, call, spawned, scheduled,
                   cmd_vars, cfg_vars>>

\* .working_dir(dir): self.working_dir = Some(dir)
BuilderWorkingDir ==
    /\ builder.st = "built"
    /\ \E dir \in {"./ui", "./infrastructure/cdk"} :
          builder' = [builder EXCEPT !.working_dir = dir]
    /\ UNCHANGED <<executor, pc, commands, task, last_done, pb, ret, call, spawned, scheduled,
                   cmd_vars, cfg_vars>>

\* .env(key, value): self.env_vars.push((key, value))
BuilderEnv ==
    /\ builder.st = "built"
    /\ Len(builder.env_vars) < MaxEnvVars
    /\ \E kv \in BuilderEnvVars : builder' = [builder EXCEPT !.env_vars = Append(@, kv)]
    /\ UNCHANGED <<executor, pc, commands, task, last_done, pb, ret, call, spawned, scheduled,
                   cmd_vars, cfg_vars>>

\* .execute(executor): executor.execute(&self.command, &args,
\* self.working_dir.as_deref()); env_vars is passed to nothing
BuilderExecute ==
    /\ builder.st = "built"
    /\ \E ex \in [dry_run : BOOLEAN, verbose : BOOLEAN], o \in ChildOutcomes :
          LET r == CallExecute(Start(proc_env, disk), ex,
                               [cmd |-> builder.command, args |-> builder.args,
                                dir |-> builder.working_dir], o)
          IN  /\ executor' = ex
              /\ trace' = r.step.trace
              /\ outcome' = [ok |-> r.ret.ok, error |-> r.ret.error]
    /\ builder' = [builder EXCEPT !.st = "run"]
    /\ UNCHANGED <<pc, commands, task, last_done, pb, ret, call, spawned, scheduled, cli,
                   invocation, answer, project, resolved, disk, disk_at_start, proc_env,
                   process, cfg_vars>>

\* .execute_streaming(executor): executor.execute_streaming(&self.command,
\* &args, self.working_dir.as_deref())
BuilderExecuteStreaming ==
    /\ builder.st = "built"
    /\ \E ex \in [dry_run : BOOLEAN, verbose : BOOLEAN], o \in ChildOutcomes :
          LET r == CallStreaming(Start(proc_env, disk), ex,
                                 [cmd |-> builder.command, args |-> builder.args,
                                  dir |-> builder.working_dir], o)
          IN  /\ executor' = ex
              /\ trace' = r.step.trace
              /\ outcome' = [ok |-> r.ret.ok, error |-> r.ret.error]
    /\ builder' = [builder EXCEPT !.st = "run"]
    /\ UNCHANGED <<pc, commands, task, last_done, pb, ret, call, spawned, scheduled, cli,
                   invocation, answer, project, resolved, disk, disk_at_start, proc_env,
                   process, cfg_vars>>

\* the builder was consumed by the call; the caller goes on to another
BuilderDropped ==
    /\ builder.st = "run"
    /\ builder' = NoBuilder
    /\ trace' = <<>>
    /\ outcome' = NoOutcome
    /\ executor' = [dry_run |-> FALSE, verbose |-> FALSE]
    /\ UNCHANGED <<pc, commands, task, last_done, pb, ret, call, spawned, scheduled, cli,
                   invocation, answer, project, resolved, disk, disk_at_start, proc_env,
                   process, cfg_vars>>

BuilderNext ==
    \/ BuilderNew
    \/ BuilderArg
    \/ BuilderArgsExtend
    \/ BuilderWorkingDir
    \/ BuilderEnv
    \/ BuilderExecute
    \/ BuilderExecuteStreaming
    \/ BuilderDropped

InitBuilder ==
    /\ InitCommands
    /\ disk = NoFile

SpecBuilder == InitBuilder /\ [][BuilderNext]_vars

\* every handler main.rs run dispatches to, one invocation after the other
InitHandlers ==
    /\ InitCommands
    /\ disk = NoFile

HandlersNext ==
    \/ DeployStacks
    \/ DestroyStacks
    \/ ShowDeploymentStatus
    \/ ShowDeploymentDiff
    \/ BootstrapEnvironment
    \/ RollbackDeployment
    \/ CleanDeploymentArtifacts
    \/ StartDevServer
    \/ BuildComponents
    \/ RunTests
    \/ RunLinting
    \/ FormatCode
    \/ RunTypecheck
    \/ RunPreCommit
    \/ InstallDependencies
    \/ UpdateDependencies
    \/ ShowOutdatedPackages
    \/ SyncAllDependencies
    \/ HandleDoctor
    \/ Exit

SpecHandlers == InitHandlers /\ [][HandlersNext]_vars

\* main.rs run, over the documents config.yaml can hold
InitResolve ==
    /\ fs \in ResolveFileSystems
    /\ located = NotLocated
    /\ components = EmptyMap
    /\ inserted = <<>>
    /\ cli = NoCli
    /\ invocation = NoInvocation
    /\ answer = "enter"
    /\ project \in ProjectConfigs \cup {NoProject, BadProject}
    /\ resolved = Unresolved
    /\ disk = NoFile
    /\ disk_at_start = NoFile
    /\ proc_env = ShellEnv
    /\ trace = <<>>
    /\ outcome = NoOutcome
    /\ process = Running
    /\ executor = [dry_run |-> FALSE, verbose |-> FALSE]
    /\ pc = "idle"
    /\ commands = <<>>
    /\ task = <<>>
    /\ last_done = 0
    /\ pb = NoPb
    /\ ret = NoRet
    /\ call = NoCall
    /\ spawned = 0
    /\ scheduled = 0
    /\ builder = NoBuilder

ResolveNext ==
    \/ Run
    \/ Exit

SpecResolve == InitResolve /\ [][ResolveNext]_vars

\* find_config_file, over the file systems it can be called in
InitFind ==
    /\ fs \in FileSystems
    /\ located = NotLocated
    /\ components = EmptyMap
    /\ inserted = <<>>
    /\ CmdInit
    /\ disk = NoFile
    /\ executor = [dry_run |-> FALSE, verbose |-> FALSE]
    /\ pc = "idle"
    /\ commands = <<>>
    /\ task = <<>>
    /\ last_done = 0
    /\ pb = NoPb
    /\ ret = NoRet
    /\ call = NoCall
    /\ spawned = 0
    /\ scheduled = 0
    /\ builder = NoBuilder

FindNext == FindConfigFile

SpecFind == InitFind /\ [][FindNext]_vars

\* the population of a component registry
InitRegistry ==
    /\ CfgIdle
    /\ CmdInit
    /\ disk = NoFile
    /\ executor = [dry_run |-> FALSE, verbose |-> FALSE]
    /\ pc = "idle"
    /\ commands = <<>>
    /\ task = <<>>
    /\ last_done = 0
    /\ pb = NoPb
    /\ ret = NoRet
    /\ call = NoCall
    /\ spawned = 0
    /\ scheduled = 0
    /\ builder = NoBuilder

RegistryNext ==
    \/ Insert
    \/ NewRegistry

SpecRegistry == InitRegistry /\ [][RegistryNext]_vars

----------------------------------------------------------------------------
(* Properties *)

\* the handler did a step of kind ev
Did(ev) == \E k \in DOMAIN trace : trace[k].ev = ev

\* execute_parallel has returned from a batch it ran (no dry run)
BatchReturned ==
    /\ ~executor.dry_run
    /\ pc = "idle"
    /\ ret.fn = "execute_parallel"

\* member i's task finished with an error: its child was not launched, exited
\* with a status other than 0, or wrote output that is not UTF-8
Failed(i) == TaskDone(i) /\ ~task[i].result.ok

\* C1: with dry_run set, no call of execute, execute_streaming or
\* execute_parallel launches a child process or schedules a task, after any
\* sequence of calls; every call returns success: execute the text
\* "DRY RUN", execute_streaming unit, execute_parallel one "DRY RUN" per
\* request submitted.
C1_DryRunSpawnsNothing ==
    executor.dry_run =>
        /\ spawned = 0
        /\ scheduled = 0
        /\ pc = "idle"
        /\ \A i \in DOMAIN task : task[i] = NewTask
        /\ ret.fn # "none" => ret.ok /\ ret.error = <<>>
        /\ ret.fn = "execute" => ret.text = DryRunText
        /\ ret.fn = "execute_streaming" => ret.text = <<>> /\ ret.outputs = <<>>
        /\ ret.fn = "execute_parallel" =>
              /\ Len(ret.outputs) = Len(commands)
              /\ \A i \in Members : ret.outputs[i] = DryRunText

C1_Witness ==
    /\ executor.dry_run
    /\ ret.fn = "execute_parallel"
    /\ Len(commands) = 3
    /\ Len(ret.outputs) = 3

\* the operator declines: n, or Enter, which takes the default
Declined == answer \in {"n", "enter"}

\* C2: force unset and the confirmation answered "no": destroy_stacks makes
\* no executor call and writes no environment variable, delete_environment
\* neither removes the environment nor saves; the file and the process
\* environment are as the invocation found them and no child was launched.
C2_DeniedDoesNothing ==
    (invocation.handler \in {"destroy_stacks", "delete_environment"}
        /\ ~cli.force /\ Declined) =>
        /\ ~Did("execute") /\ ~Did("execute_streaming") /\ ~Did("child")
        /\ ~Did("set_var")
        /\ proc_env = ShellEnv
        /\ ~Did("remove") /\ ~Did("save")
        /\ disk = disk_at_start

C2_Witness ==
    /\ invocation.handler = "destroy_stacks"
    /\ ~cli.force /\ ~cli.dry_run
    /\ answer = "n"
    /\ Did("confirm_destructive")
    /\ outcome = HOk

\* delete_environment reaches its confirmation: the file is read, the
\* environment exists and is not the current one
DeleteReachesGate ==
    /\ invocation.handler = "delete_environment"
    /\ disk_at_start.file = "ok"
    /\ invocation.name \in DOMAIN disk_at_start.environments
    /\ disk_at_start.current_environment # invocation.name

\* C3: with force set no confirmation prompt is shown, and the handler goes
\* on to the destructive action: destroy_stacks sets the variables and calls
\* the executor, delete_environment removes the environment and saves.
C3_ForcedNeverPrompts ==
    (invocation.handler \in {"destroy_stacks", "delete_environment"} /\ cli.force) =>
        /\ ~Did("confirm_destructive")
        /\ invocation.handler = "destroy_stacks" =>
              /\ Did("set_var")
              /\ Did("execute") \/ Did("execute_streaming")
        /\ DeleteReachesGate =>
              /\ Did("remove") /\ Did("save")
              /\ outcome.ok => invocation.name \notin DOMAIN disk.environments

C3_Witness ==
    /\ DeleteReachesGate
    /\ cli.force
    /\ answer = "n"
    /\ outcome = HOk
    /\ invocation.name \notin DOMAIN disk.environments

\* C4: force unset and no answer to be had (no terminal): the handler takes
\* the path of an explicit "no": no executor call, no state change, and the
\* same outcome, the cancellation message and Ok.
C4_NoTerminalIsDenied ==
    (invocation.handler = "destroy_stacks" /\ ~cli.force
        /\ answer = "not_a_terminal") =>
        /\ ~Did("execute") /\ ~Did("execute_streaming") /\ ~Did("set_var")
        /\ proc_env = ShellEnv
        /\ Did("info")
        /\ outcome = HOk

\* C5: every member of a batch succeeding, execute_parallel returns as many
\* outputs as requests, the i-th the standard output of the i-th request's
\* child, in whatever order the tasks started and finished.
C5_OutputsAlignedWithInput ==
    (BatchReturned /\ \A i \in Members : ~Failed(i)) =>
        /\ ret.ok
        /\ Len(ret.outputs) = Len(commands)
        /\ \A i \in Members : ret.outputs[i] = task[i].child.stdout

C5_Witness ==
    /\ BatchReturned
    /\ ret.ok
    /\ Len(commands) = 3
    /\ ret.outputs[1] # ret.outputs[3]
    /\ last_done = 1

\* C6: a member failing, execute_parallel returns the failure only once every
\* member's task has been scheduled, has run and has finished: none is
\* skipped, and no child launched is still running.
C6_FailureWaitsForSiblings ==
    (~executor.dry_run /\ ret.fn = "execute_parallel" /\ ~ret.ok) =>
        /\ scheduled = Len(commands)
        /\ \A i \in Members : TaskDone(i) /\ task[i].child.kind # "none"
        /\ spawned = Cardinality({ i \in Members : task[i].child.kind = "exit" })

C6_Witness ==
    /\ BatchReturned
    /\ ~ret.ok
    /\ Len(commands) = 3
    /\ Failed(1)
    /\ ~Failed(2) /\ ~Failed(3)
    /\ last_done = 3

\* C7: in a batch [r1, r2, r3] of which only r2 fails, the caller receives
\* the failure of r2 and also the results of r1 and r3.
C7_SiblingResultsReturned ==
    (BatchReturned /\ Len(commands) = 3
        /\ Failed(2) /\ ~Failed(1) /\ ~Failed(3)) =>
        /\ ~ret.ok
        /\ \A i \in {1, 3} :
              \E k \in DOMAIN ret.outputs : ret.outputs[k] = task[i].child.stdout

\* C8: the error of a failed batch names every member that failed (by its
\* request), also when several fail.
C8_EveryFailedMemberNamed ==
    (BatchReturned /\ ~ret.ok) =>
        \A i \in Members :
            Failed(i) => \E k \in DOMAIN ret.error : ret.error[k].req = commands[i]

\* C9: a failed batch returns exactly one error, and that error records how
\* many members were submitted.
C9_ErrorRecordsTotal ==
    (BatchReturned /\ ~ret.ok) =>
        /\ ret.error # <<>>
        /\ \E k \in DOMAIN ret.error : ret.error[k].count = Len(commands)

\* run has a document: the configuration file was given or located, read and
\* parsed
ConfigLoaded ==
    /\ project.file = "ok"
    /\ cli.config # NoName \/ find_config_file(fs).ok

\* the block of environment name in the document
Block(self, name) ==
    CASE name = "dev" -> self.dev
      [] name = "staging" -> self.staging
      [] name = "prod" -> self.prod
      [] OTHER -> NoBlock

\* C10: no environment given on the command line, run resolves the
\* document's default environment, and the configuration it gets is that
\* environment's block of the document; for a default of dev, the dev block.
C10_DefaultEnvironmentResolved ==
    (invocation.handler = "run" /\ cli.env = NoName /\ ConfigLoaded) =>
        /\ resolved.env = project.env
        /\ resolved.ok => /\ resolved.config = Block(project, project.env)
                          /\ resolved.config # NoBlock
        /\ project.env = "dev" => resolved.ok /\ resolved.config = project.dev

C10_Witness ==
    /\ invocation.handler = "run"
    /\ cli.env = NoName
    /\ project.env = "staging"
    /\ resolved.ok
    /\ resolved.config = project.staging
    /\ resolved.config # project.dev
    /\ Did("dispatch")

\* the elements of a sequence
Range(seq) == {seq[k] : k \in DOMAIN seq}

\* C11: for every document and every requested name that is not a configured
\* environment of it, get_env_config fails and the error lists the valid
\* options, which are the environments configured in that document (only dev
\* configured and staging requested: the error lists dev alone).
C11_ErrorListsConfigured ==
    (/\ invocation.handler = "run"
     /\ ConfigLoaded
     /\ resolved.env \notin Range(get_available_environments(project))) =>
        /\ ~resolved.ok
        /\ Range(resolved.options) = Range(get_available_environments(project))

\* C12: the document's default environment is not one of its configured
\* environments and no environment is given on the command line: run fails
\* at resolution, whatever the command, and no handler is dispatched.
C12_UnconfiguredDefaultFailsBeforeDispatch ==
    (/\ invocation.handler = "run"
     /\ cli.env = NoName
     /\ ConfigLoaded
     /\ project.env \notin Range(get_available_environments(project))) =>
        /\ ~resolved.ok
        /\ ~outcome.ok
        /\ outcome.error = resolved.error
        /\ ~Did("dispatch")

C12_Witness ==
    /\ invocation.handler = "run"
    /\ invocation.command = "deploy"
    /\ cli.env = NoName
    /\ ConfigLoaded
    /\ project.env = "staging"
    /\ project.staging = NoBlock
    /\ project.prod # NoBlock
    /\ ~outcome.ok
    /\ trace = <<>>

\* the last executor call was a real call of fn, which has returned
Called(fn) == ret.fn = fn /\ ~executor.dry_run /\ pc = "idle"

\* the outcomes of a child that was launched and exited with a status other
\* than 0
NonZeroExits == {o \in ExitOutcomes : o.code # 0}

\* C14: in captured mode, the child exiting with a non-zero status, execute
\* returns an error that carries the exit code and the captured standard
\* output and standard error text of the child.
C14_ErrorCarriesCapturedText ==
    (Called("execute") /\ call.child \in NonZeroExits) =>
        /\ ~ret.ok
        /\ \E k \in DOMAIN ret.error : ret.error[k].code = call.child.code
        /\ \E k \in DOMAIN ret.error : ret.error[k].stdout = call.child.stdout
        /\ \E k \in DOMAIN ret.error : ret.error[k].stderr = call.child.stderr

\* the messages of an error chain
Messages(chain) == {chain[k].msg : k \in DOMAIN chain}

\* C15: the executable cannot be launched: execute, execute_streaming and
\* each batch member fail, with an error that differs in every message from
\* the error the same operation gives for a non-zero exit, and return no
\* output for the request.
C15_SpawnFailureDistinct ==
    /\ (Called("execute") /\ call.child = SpawnFailed) =>
            /\ ~ret.ok /\ ret.text = <<>> /\ ret.error # <<>>
            /\ \A o \in NonZeroExits :
                  Messages(ret.error) \cap Messages(execute(executor, call.req, o).error) = {}
    /\ (Called("execute_streaming") /\ call.child = SpawnFailed) =>
            /\ ~ret.ok /\ ret.text = <<>> /\ ret.error # <<>>
            /\ \A o \in NonZeroExits :
                  Messages(ret.error)
                      \cap Messages(execute_streaming(executor, call.req, o).error) = {}
    /\ \A i \in DOMAIN task :
          (task[i].st = "done" /\ task[i].child = SpawnFailed) =>
            /\ ~task[i].result.ok /\ task[i].result.text = <<>> /\ task[i].result.error # <<>>
            /\ \A o \in NonZeroExits :
                  Messages(task[i].result.error)
                      \cap Messages(execute_single_exit(commands[i], o).error) = {}
            /\ Called("execute_parallel") => ~ret.ok /\ ret.outputs = <<>>

C15_Witness ==
    /\ Called("execute_parallel")
    /\ Len(commands) = 2
    /\ task[1].child \in NonZeroExits
    /\ task[2].child = SpawnFailed
    /\ ~ret.ok

\* C16: execute_streaming fails for exactly the child outcomes execute fails
\* for, which are the non-zero exits and the spawn failures and no others,
\* with the same exit code in the error; on a zero exit it returns success
\* with no captured text.
C16_StreamingFailsAsCaptured ==
    /\ Called("execute_streaming") =>
          /\ ret.ok = execute(executor, call.req, call.child).ok
          /\ ~ret.ok => ret.error = execute(executor, call.req, call.child).error
          /\ ret.ok => ret.text = <<>>
    /\ Called("execute") =>
          (~ret.ok <=> (call.child = SpawnFailed \/ call.child \in NonZeroExits))

\* C16 as amended: execute_streaming fails exactly on the non-zero exits and
\* the spawn failures, and there execute fails too, with the same error (the
\* same exit code); on a zero exit it returns success with no captured text
\* (execute can still fail there, on captured output that is not UTF-8).
C16_StreamingFailsOnStatusOnly ==
    Called("execute_streaming") =>
        /\ ~ret.ok <=> (call.child = SpawnFailed \/ call.child \in NonZeroExits)
        /\ ~ret.ok => /\ ~execute(executor, call.req, call.child).ok
                       /\ ret.error = execute(executor, call.req, call.child).error
                       /\ call.child \in NonZeroExits =>
                             \E k \in DOMAIN ret.error : ret.error[k].code = call.child.code
        /\ ret.ok => ret.text = <<>> /\ call.child.code = 0

C16_Witness ==
    /\ Called("execute_streaming")
    /\ call.child \in NonZeroExits
    /\ ~ret.ok
    /\ ret.error[1].code = 1

\* a batch that is run (no dry run) is in progress
BatchRunning == ~executor.dry_run /\ pc \in {"spawning", "joining"}

\* the members whose task has finished, with a result or an error
DoneCount == Cardinality({i \in Members : TaskDone(i)})

\* C17: during a batch of N requests that is run (no dry run), the
\* completed-count reported only ever increases, by exactly one for each
\* member that finishes, whether it succeeded or failed; it never exceeds N
\* and is N when execute_parallel returns.
C17_CompletedCountTracksMembers ==
    /\ []((BatchRunning \/ BatchReturned) => pb.pos <= Len(commands))
    /\ [](BatchRunning => pb.pos = DoneCount)
    /\ [](BatchReturned => pb.pos = Len(commands))
    /\ [][BatchRunning => /\ pb'.pos >= pb.pos
                          /\ pb'.pos - pb.pos = DoneCount' - DoneCount]_vars

\* C17 as amended: the same, for an executor that is not verbose; a verbose
\* executor reports no completed-count.
C17_CompletedCountWhenNotVerbose ==
    /\ [](executor.verbose => ~pb.shown /\ pb.pos = 0)
    /\ [](~executor.verbose =>
            /\ (BatchRunning \/ BatchReturned) => pb.shown /\ pb.len = Len(commands)
                                                   /\ pb.pos <= pb.len
            /\ BatchRunning => pb.pos = DoneCount
            /\ BatchReturned => pb.pos = Len(commands))
    /\ [][(~executor.verbose /\ BatchRunning) =>
            /\ pb'.pos >= pb.pos
            /\ pb'.pos - pb.pos = DoneCount' - DoneCount]_vars

C17_Witness ==
    /\ BatchReturned
    /\ ~executor.verbose
    /\ Len(commands) = 3
    /\ Failed(1) /\ ~Failed(2)
    /\ last_done = 1
    /\ pb.pos = 3

\* the directories of the chain that hold a recognised file
Hits == {k \in DOMAIN fs.chain : fs.chain[k] \cap {"config.yaml", "config.yaml.example"} # {}}

Nearest == CHOOSE k \in Hits : \A j \in Hits : k <= j

\* C18: find_config_file returns the match in the nearest directory, from
\* the current directory towards the root, that holds a recognised file,
\* config.yaml before config.yaml.example within one directory (so a nearer
\* config.yaml.example wins over a farther config.yaml); it returns for every
\* depth, and fails exactly when no directory of the chain, the root
\* included, holds either file.
C18_NearestMatchWins ==
    located.called =>
        /\ located.ok <=> Hits # {}
        /\ located.ok =>
              /\ located.dir = Nearest
              /\ located.file = IF "config.yaml" \in fs.chain[Nearest]
                                THEN "config.yaml"
                                ELSE "config.yaml.example"

\* C18 as amended: the same, once the current directory can be determined;
\* when it cannot, find_config_file fails whatever the directories hold.
C18_NearestMatchWinsFromCwd ==
    located.called =>
        /\ located.ok <=> (fs.cwd_ok /\ Hits # {})
        /\ located.ok =>
              /\ located.dir = Nearest
              /\ located.file = IF "config.yaml" \in fs.chain[Nearest]
                                THEN "config.yaml"
                                ELSE "config.yaml.example"

C18_Witness ==
    /\ located.called
    /\ fs.cwd_ok
    /\ Len(fs.chain) = 3
    /\ fs.chain[1] = {"README.md"}
    /\ fs.chain[2] = {"config.yaml.example"}
    /\ "config.yaml" \in fs.chain[3]
    /\ located.ok
    /\ located.dir = 2
    /\ located.file = "config.yaml.example"

\* the first insert of the population under the name of its k-th insert
FirstInsert(k) ==
    CHOOSE j \in 1..k :
        /\ inserted[j].name = inserted[k].name
        /\ \A i \in 1..(j - 1) : inserted[i].name # inserted[k].name

NamesGiven(chain) == UNION {chain[k].names : k \in DOMAIN chain}

\* C19: a dev or deps command given a component name that is neither "all"
\* nor a registered component fails at the lookup, before any process is
\* run, and the error enumerates the names of the registered components.
C19_UnknownComponentListsKnown ==
    (/\ invocation.handler \in {"build_components", "install_dependencies"}
     /\ invocation.component \notin DOMAIN get_default_components \cup {"all"}) =>
        /\ ~outcome.ok
        /\ ~Did("execute_streaming") /\ ~Did("child")
        /\ DOMAIN get_default_components \subseteq NamesGiven(outcome.error)

\* the environment run selects: --env, or the document's default
Selected == IF cli.env # NoName THEN cli.env ELSE project.env

\* C26: the configuration file cannot be located, read or parsed, or the
\* selected environment has no block in it: run returns the error with
\* nothing dispatched and nothing spawned, and the process exits with status
\* 1, for every command, version included.
C26_ConfigFailureAbortsBeforeDispatch ==
    (/\ invocation.handler = "run"
     /\ \/ ~ConfigLoaded
        \/ Block(project, Selected) = NoBlock) =>
        /\ ~outcome.ok
        /\ trace = <<>>
        /\ process.status = 1

C26_Witness ==
    /\ invocation.handler = "run"
    /\ invocation.command = "version"
    /\ project.file = "malformed"
    /\ ~outcome.ok
    /\ trace = <<>>
    /\ process.status = 1

\* a handler is running or has returned in this process
Invoked == invocation # NoInvocation

\* C21: with dry_run set, no handler launches a child, whatever the command
\* and its arguments: not through execute or execute_streaming, and not
\* through check_command_exists, which makes no `which` probe and reports
\* the command as there (pre-commit goes on to its executor call).
C21_DryRunSpawnsNothing ==
    (Invoked /\ cli.dry_run) =>
        /\ ~Did("child")
        /\ ~Did("which")
        /\ invocation.handler = "run_pre_commit" => Did("execute_streaming")

C21_Witness ==
    /\ cli.dry_run
    /\ invocation.handler = "run_pre_commit"
    /\ Did("execute_streaming")
    /\ ~Did("child")
    /\ outcome = HOk

\* the handlers that go on after a failed executor call
Recovering == {"show_outdated_packages", "handle_doctor"}

\* C22: the exit status is 0 exactly when the handler returned Ok, with
\* nothing on the error stream; when it returned an error the status is 1
\* and the error stream holds the diagnostic, the error's outermost message.
\* A failed executor call in a handler that does not recover from it ends in
\* status 1.
C22_ExitStatusFollowsOutcome ==
    Invoked =>
        /\ outcome.ok => process = [status |-> 0, stderr |-> <<>>]
        /\ ~outcome.ok =>
              /\ process.status = 1
              /\ process.stderr = <<"ERROR Command failed: " \o outcome.error[1].msg>>
        /\ (Did("failed") /\ invocation.handler \notin Recovering) => process.status = 1

C22_Witness ==
    /\ invocation.handler = "deploy_stacks"
    /\ Did("failed")
    /\ process.status = 1
    /\ process.stderr # <<>>

\* the handler printed msg at the info level
Informed(msg) == \E k \in DOMAIN trace : trace[k] = [ev |-> "info", arg |-> msg]

\* C23: force unset and the confirmation answered "no": the handler prints
\* its cancellation message at the info level and returns Ok; nothing is
\* written to the error stream and the exit status is 0.
C23_DenialIsCancellation ==
    (~cli.force /\ Declined) =>
        /\ invocation.handler = "destroy_stacks" =>
              /\ Informed("Destroy operation cancelled")
              /\ outcome = HOk
              /\ process = [status |-> 0, stderr |-> <<>>]
        /\ DeleteReachesGate =>
              /\ Informed("Environment deletion cancelled")
              /\ outcome = HOk
              /\ process = [status |-> 0, stderr |-> <<>>]

C23_Witness ==
    /\ invocation.handler = "destroy_stacks"
    /\ ~cli.force
    /\ answer = "n"
    /\ Informed("Destroy operation cancelled")
    /\ process.status = 0

\* the deploy-family handlers that invoke the deployment tool
DeployFamily ==
    {"deploy_stacks", "destroy_stacks", "show_deployment_status", "show_deployment_diff",
     "bootstrap_environment"}

\* the process environment with the variables of env_config exported into it
Exported(env_config) ==
    [v \in EnvVarNames |->
        CASE v \in {"AWS_REGION", "CDK_DEFAULT_REGION"} -> env_config.region
          [] v \in {"AWS_ACCOUNT", "CDK_DEFAULT_ACCOUNT"} -> env_config.account_number
          [] OTHER -> IF env_config.aws_profile # NoProfile
                      THEN env_config.aws_profile
                      ELSE ShellEnv[v]]

\* C24, as claimed: the process-wide environment of the CLI is the same after
\* a deploy-family command as before it.
C24_ProcessEnvironmentUnchanged ==
    invocation.handler \in DeployFamily => proc_env = ShellEnv

\* C24, amended: a deploy-family handler that reaches its set-up writes the
\* region, account and (when configured) profile into the CLI's own
\* process-wide environment, where they stay; the children it launches
\* afterwards inherit them from there.  Only a handler that returns before the
\* set-up leaves the environment as it found it.
C24_VariablesExportedProcessWide ==
    invocation.handler \in DeployFamily =>
        /\ Did("set_var") => proc_env = Exported(invocation.env_config)
        /\ ~Did("set_var") => proc_env = ShellEnv
        /\ invocation.handler \notin {"deploy_stacks", "destroy_stacks"} => Did("set_var")
        /\ \A k \in DOMAIN trace :
              trace[k].ev = "child" => trace[k].env = Exported(invocation.env_config)

C24_Witness ==
    /\ invocation.handler = "deploy_stacks"
    /\ ~cli.dry_run
    /\ Did("child")
    /\ outcome = HOk
    /\ proc_env = Exported(invocation.env_config)
    /\ proc_env # ShellEnv

\* what a handler of the dev family reads of a component
TemplateOf(handler, comp_config) ==
    CASE handler = "start_dev_server" -> comp_config.dev_command
      [] handler = "build_components" -> comp_config.build_command
      [] handler = "run_tests" -> comp_config.test_command
      [] handler = "run_linting" -> comp_config.lint_command
      [] handler = "format_code" -> comp_config.format_command
      [] OTHER -> NoCommand

\* the line a handler of the dev family prints before it runs a component
Announce(handler, name) ==
    CASE handler = "start_dev_server" -> "Starting " \o name \o " development server..."
      [] handler = "build_components" -> "Building " \o name \o "..."
      [] handler = "run_tests" -> "Testing " \o name \o "..."
      [] handler = "run_linting" -> "Linting " \o name \o "..."
      [] handler = "format_code" -> "Formatting " \o name \o "..."
      [] OTHER -> ""

\* the components "all" runs for a handler
RunFor(handler) ==
    {n \in DOMAIN get_default_components :
        /\ TemplateOf(handler, get_default_components[n]) # NoCommand
        /\ handler = "start_dev_server" => n \in {"backend", "frontend"}}

\* the executor calls of the trace
Calls == {k \in DOMAIN trace : trace[k].ev \in {"execute", "execute_streaming"}}

DevFamily ==
    {"start_dev_server", "build_components", "run_tests", "run_linting", "format_code"}

\* C25: start, build, test, lint or format of one registered component that
\* has no command for the action makes no executor call, launches nothing and
\* returns Ok; with "all", a component without the command is passed over: it
\* is not announced, and a run that succeeds made one call per component that
\* has the command.
C25_AbsentCommandIsSkipped ==
    invocation.handler \in DevFamily =>
        /\ (/\ invocation.component \in DOMAIN get_default_components
            /\ TemplateOf(invocation.handler,
                          get_default_components[invocation.component]) = NoCommand) =>
              /\ Calls = {}
              /\ ~Did("child")
              /\ outcome = HOk
        /\ invocation.component = "all" =>
              /\ \A n \in DOMAIN get_default_components \ RunFor(invocation.handler) :
                    ~Informed(Announce(invocation.handler, n))
              /\ outcome.ok => Cardinality(Calls) = Cardinality(RunFor(invocation.handler))

C25_Witness ==
    /\ invocation.handler = "format_code"
    /\ invocation.component = "infrastructure"
    /\ ~cli.dry_run
    /\ Did("warning")
    /\ Calls = {}
    /\ outcome = HOk

\* the handlers that run their external commands one after the other
SequentialFlows ==
    {"install_dependencies", "update_dependencies", "sync_all_dependencies",
     "build_components", "run_tests", "run_linting", "format_code", "run_typecheck"}

\* the messages of the errors execute_streaming returns
StreamingErrors == {"Failed to execute command", "Command failed with exit code"}

\* C27: in a handler that runs its external commands in sequence, the first
\* command to fail is the last one started, and the handler returns its
\* error: no executor call and no child comes after the failure.
C27_FailureStopsSequence ==
    invocation.handler \in SequentialFlows =>
        \A k \in DOMAIN trace :
            trace[k].ev = "failed" =>
                /\ \A j \in DOMAIN trace :
                      j > k => trace[j].ev \notin {"execute", "execute_streaming", "child"}
                /\ ~outcome.ok
                /\ \E l \in DOMAIN outcome.error : outcome.error[l].msg \in StreamingErrors

C27_Witness ==
    /\ invocation.handler = "update_dependencies"
    /\ invocation.component = "backend"
    /\ ~cli.dry_run
    /\ \E k \in DOMAIN trace : trace[k] = [ev |-> "failed", arg |-> "uv lock --upgrade"]
    /\ ~\E k \in DOMAIN trace : trace[k].arg = "uv sync"
    /\ ~outcome.ok

\* the variables setup_cdk_environment writes for env_config
Written(env_config) ==
    IF env_config.aws_profile # NoProfile THEN EnvVarNames ELSE EnvVarNames \ {"AWS_PROFILE"}

\* C28: in deploy, destroy, status, diff and bootstrap, every executor call
\* and every child comes after all the writes of the environment variables,
\* and no write comes after it; the path over the interactive selection
\* included.
C28_VariablesWrittenBeforeTool ==
    invocation.handler \in DeployFamily =>
        \A j \in DOMAIN trace :
            trace[j].ev \in {"execute", "execute_streaming", "child"} =>
                /\ {trace[i].arg : i \in {n \in 1..(j - 1) : trace[n].ev = "set_var"}}
                      = Written(invocation.env_config)
                /\ \A i \in DOMAIN trace : i > j => trace[i].ev # "set_var"

C28_Witness ==
    /\ invocation.handler = "deploy_stacks"
    /\ invocation.stack = NoStack /\ ~invocation.all
    /\ ~cli.dry_run
    /\ Did("select_option")
    /\ Did("child")
    /\ outcome = HOk

\* C29: deps outdated of "all" or of a registered component returns Ok
\* whatever its checks do, and with "all" runs the three checks, each after
\* the one before has failed or not; deps install and deps update return the
\* error of a command that fails.
C29_OutdatedFailureIsNotFatal ==
    /\ (/\ invocation.handler = "show_outdated_packages"
        /\ invocation.component \in DOMAIN get_default_components \cup {"all"}) =>
          /\ outcome = HOk
          /\ invocation.component = "all" =>
                Cardinality(Calls) = Cardinality(DOMAIN get_default_components)
    /\ (/\ invocation.handler \in {"install_dependencies", "update_dependencies"}
        /\ Did("failed")) =>
          ~outcome.ok

C29_Witness ==
    /\ invocation.handler = "show_outdated_packages"
    /\ invocation.component = "all"
    /\ ~cli.dry_run
    /\ \E k \in DOMAIN trace : trace[k] = [ev |-> "failed", arg |-> "npm outdated"]
    /\ Cardinality(Calls) = Cardinality(DOMAIN get_default_components)
    /\ outcome = HOk

\* C30: a process runs one command: once a handler has been invoked the
\* process does nothing but exit.  Each environment variable is written at
\* most once, by that handler, and no write comes after a child has been
\* launched (a child is awaited where it is launched, so none is running at
\* a write).
C30_OneDeploymentCommandPerProcess ==
    /\ [](\A i, j \in DOMAIN trace :
            trace[i].ev = "set_var" =>
                /\ (trace[j].ev = "set_var" /\ trace[j].arg = trace[i].arg) => i = j
                /\ trace[j].ev = "child" => i < j)
    /\ [][Invoked => (invocation' = NoInvocation /\ proc_env' = ShellEnv)]_vars

C30_Witness ==
    /\ invocation.handler = "bootstrap_environment"
    /\ ~cli.dry_run
    /\ Did("set_var")
    /\ Did("child")
    /\ proc_env # ShellEnv

\* C31: on every document, get_env_config succeeds for exactly the names
\* get_available_environments lists, dev is one of them, and the resolution
\* run made of the selected name went accordingly.
C31_ResolvableIffAvailable ==
    project.file = "ok" =>
        /\ \A name \in EnvNames :
              get_env_config(project, name).ok
                  <=> name \in Range(get_available_environments(project))
        /\ "dev" \in Range(get_available_environments(project))
        /\ get_env_config(project, "dev") = RCfg(project.dev)
        /\ (invocation.handler = "run" /\ ConfigLoaded) =>
              (resolved.ok <=> Selected \in Range(get_available_environments(project)))

C31_Witness ==
    /\ invocation.handler = "run"
    /\ ConfigLoaded
    /\ Selected = "prod"
    /\ project.prod # NoBlock
    /\ project.staging = NoBlock
    /\ resolved.ok
    /\ ~get_env_config(project, "staging").ok

\* the file's current environment, when set, is one of its environments
CurrentIsKnown(file) ==
    (file.file = "ok" /\ file.current_environment # NoName) =>
        file.current_environment \in DOMAIN file.environments

Children(cmd) == {k \in DOMAIN trace : trace[k].ev = "child" /\ trace[k].arg = cmd}

\* C33: dev start of "all": the frontend server (npm) is launched only after
\* the backend server (python) has exited with status 0; a backend that exits
\* with another status or cannot be launched leaves the frontend unstarted;
\* and each child has exited before anything else is launched, so the two
\* are never running together.
C33_ServersRunOneAfterTheOther ==
    (invocation.handler = "start_dev_server" /\ invocation.component = "all") =>
        /\ \A k \in Children("npm") :
              \E j \in 1..(k - 1) : trace[j] = [ev |-> "exit", arg |-> "python", status |-> 0]
        /\ (\E k \in DOMAIN trace :
                trace[k] = [ev |-> "failed", arg |-> "python -m app.api.main"]) =>
              /\ Children("npm") = {}
              /\ ~\E k \in DOMAIN trace : trace[k].arg = "npm run dev"
              /\ ~outcome.ok
        /\ \A k \in DOMAIN trace :
              trace[k].ev = "child" =>
                  /\ k + 1 \in DOMAIN trace
                  /\ trace[k + 1].ev = "exit"
                  /\ trace[k + 1].arg = trace[k].arg

C33_Witness ==
    /\ invocation.handler = "start_dev_server"
    /\ invocation.component = "all"
    /\ ~cli.dry_run
    /\ Children("python") # {}
    /\ Children("npm") # {}
    /\ outcome = HOk

\* executor.rs execute_streaming, Command::current_dir: the directory the
\* child runs in, relative to the directory of cwb; without a working
\* directory the child inherits that of cwb, and a leading "./" names the
\* same directory as the path without it
current_dir(working_dir) ==
    CASE working_dir = NoDir -> "."
      [] working_dir = "./backend" -> "backend"
      [] working_dir = "./ui" -> "ui"
      [] working_dir = "./infrastructure/cdk" -> "infrastructure/cdk"
      [] OTHER -> working_dir

\* the command lines of the executor calls of a trace, each with the
\* directory it runs in
RECURSIVE CommandLines(_)
CommandLines(tr) ==
    IF tr = <<>>
    THEN <<>>
    ELSE LET e == Head(tr) IN
         IF e.ev \in {"execute", "execute_streaming"}
         THEN <<[command |-> e.arg, dir |-> current_dir(e.dir)]>> \o CommandLines(Tail(tr))
         ELSE CommandLines(Tail(tr))

\* the children of a run all exit with status 0
AllSucceed ==
    [n \in DOMAIN get_default_components |->
        [kind |-> "exit", code |-> 0, stdout |-> <<>>, stderr |-> <<"warn">>]]

\* what deps install or deps update of one component runs, under the flags
\* of the invocation, when its commands succeed
Alone(handler, component) ==
    CommandLines(IF handler = "install_dependencies"
             THEN install_dependencies(Start(ShellEnv, NoFile), cli, component,
                                       get_default_components, AllSucceed).trace
             ELSE update_dependencies(Start(ShellEnv, NoFile), cli, component,
                                      get_default_components, AllSucceed,
                                      AllSucceed["backend"]).trace)

\* C34: a deps install or deps update of "all" that succeeds has run, for
\* the backend, the frontend and the infrastructure in turn, the command
\* lines that deps install or deps update of that component alone runs, each
\* in the same working directory.
C34_AllRunsWhatEachComponentRuns ==
    (/\ invocation.handler \in {"install_dependencies", "update_dependencies"}
     /\ invocation.component = "all"
     /\ outcome.ok) =>
        CommandLines(trace) = Alone(invocation.handler, "backend")
                              \o Alone(invocation.handler, "frontend")
                              \o Alone(invocation.handler, "infrastructure")

\* the handlers that run a command of every component of the map
OverTheMap == {"build_components", "run_tests", "run_linting", "format_code"}

\* the executor calls of the trace made in the directory of a component
CallsIn(n) == {k \in Calls : trace[k].dir = get_default_components[n].path}

\* C35: dev build, test, lint or format of "all", whatever order the
\* component map is iterated in, returns Ok exactly when the command of
\* every component that has the command succeeds (its child exits with
\* status 0, or nothing is launched in a dry run); and a run that returns Ok
\* has made one executor call for each such component and no other.
C35_OutcomeWhateverTheOrder ==
    (invocation.handler \in OverTheMap /\ invocation.component = "all") =>
        /\ outcome.ok <=>
              (cli.dry_run \/ RunFor(invocation.handler) \subseteq invocation.exits_zero)
        /\ outcome.ok =>
              /\ \A n \in RunFor(invocation.handler) : Cardinality(CallsIn(n)) = 1
              /\ Cardinality(Calls) = Cardinality(RunFor(invocation.handler))

\* a lint of "all" that iterated the map from the frontend on and succeeded
C35_Witness ==
    /\ invocation.handler = "run_linting"
    /\ invocation.component = "all"
    /\ ~cli.dry_run
    /\ outcome = HOk
    /\ Cardinality(RunFor("run_linting")) > 1
    /\ Calls # {}
    /\ \A k \in Calls : (\A j \in Calls : k <= j) => trace[k].dir = "./ui"

\* the package managers install, update and outdated have a command for
KnownPackageManagers == {"uv", "npm", "yarn", "pnpm"}

\* C36: deps install, update or outdated of one component of the map whose
\* package manager is none of uv, npm, yarn and pnpm makes no executor call
\* and launches no process, warns of the unknown package manager and
\* returns Ok.
C36_UnknownPackageManagerRunsNothing ==
    (/\ invocation.handler \in {"install_dependencies", "update_dependencies",
                                "show_outdated_packages"}
     /\ invocation.component \in DOMAIN components
     /\ components[invocation.component].package_manager \notin KnownPackageManagers) =>
        /\ Calls = {}
        /\ \A k \in DOMAIN trace : trace[k].ev \notin {"child", "exit", "failed"}
        /\ \E k \in DOMAIN trace :
              trace[k] = [ev |-> "warning", arg |-> "Unknown package manager: "
                              \o components[invocation.component].package_manager]
        /\ outcome = HOk
        /\ process = main_exit(HOk)

C36_Witness ==
    /\ invocation.handler = "update_dependencies"
    /\ invocation.component = "frontend"
    /\ components["frontend"].package_manager = "bun"
    /\ ~cli.dry_run
    /\ outcome = HOk

\* the prompts of select_option in the trace
Selections == {k \in DOMAIN trace : trace[k].ev = "select_option"}

\* the calls of cdk list in the trace
Listings == {k \in Calls : trace[k].ev = "execute" /\ trace[k].arg = "cdk list"}

\* C37: in a dry run, deploy or destroy with no stack named and without
\* --all takes its stacks from what the executor returns in place of the
\* output of cdk list: every selection offered is the one item "DRY RUN",
\* the run never fails with "No CDK stacks found", and a run that got to
\* list the stacks launched nothing for it and went on to prompt the
\* operator.
C37_DryRunOffersTheSyntheticStack ==
    (/\ invocation.handler \in {"deploy_stacks", "destroy_stacks"}
     /\ cli.dry_run
     /\ invocation.stack = NoStack
     /\ ~invocation.all) =>
        /\ \A k \in Selections : trace[k].items = <<"DRY RUN">>
        /\ outcome.ok \/ outcome.error # Msg("No CDK stacks found")
        /\ \A k \in Listings : \E j \in Selections : j > k
        /\ \A k \in DOMAIN trace : trace[k].ev # "child"

C37_Witness ==
    /\ invocation.handler = "destroy_stacks"
    /\ cli.dry_run
    /\ invocation.stack = NoStack
    /\ ~invocation.all
    /\ Listings # {}
    /\ Selections # {}
    /\ \E k \in Calls : trace[k].arg = "cdk destroy DRY RUN --force"
    /\ outcome = HOk

\* the value the child gets for a variable from the pairs of the builder:
\* the last pair added under the name, the inherited value when there is none
RECURSIVE Added(_, _, _)
Added(env_vars, name, inherited) ==
    IF env_vars = <<>>
    THEN inherited
    ELSE Added(Tail(env_vars), name,
               IF Head(env_vars)[1] = name THEN Head(env_vars)[2] ELSE inherited)

\* C38: a builder that was run made one executor call, of its program with
\* its arguments in the order arg and args added them, in its working
\* directory, and the child the call launched has every environment
\* variable the builder was given with env.
C38_RunsWhatTheBuilderHolds ==
    builder.st = "run" =>
        /\ Cardinality(Calls) = 1
        /\ \A k \in Calls :
              /\ trace[k].arg = FullCommand([cmd |-> builder.command, args |-> builder.args])
              /\ trace[k].dir = builder.working_dir
        /\ \A k \in DOMAIN trace :
              trace[k].ev = "child" =>
                  /\ trace[k].arg = builder.command
                  /\ \A name \in EnvVarNames :
                        trace[k].env[name] = Added(builder.env_vars, name, proc_env[name])

====
